---- MODULE Spec2Model ----
(***************************************************************************)
(* HighPowerCatalog: offline caching workflow and fetch interception.      *)
(*                                                                         *)
(* Modelled parts:                                                         *)
(*   - src/src/flipbook/cache.ts   CacheManager (message-based cacheBook)  *)
(*   - src/sw.js                   service worker: activate, fetch,       *)
(*                                 message, cacheBook                      *)
(*   - src/IMPLEMENTATION_GUIDE.md CacheManager as documented             *)
(*                                 (downloadBookForOffline, ...)           *)
(*   - src/src/flipbook/viewer.ts  the URLs the viewer requests            *)
(*                                                                         *)
(* A URL is modelled by its path, a sequence of tokens ("/" and names);    *)
(* every URL of the program is same-origin, so the origin is left out.     *)
(* String concatenation is \o, String.includes is a contiguous-subsequence *)
(* search, String.startsWith a prefix test.                                *)
(***************************************************************************)
EXTENDS Integers, Sequences, FiniteSets, TLC

\* ------------------------------------------------------------------ bounds
MaxPages == 1
MaxCalls == 2
MaxVersion == 2
MaxSubscribes == 3
\* pages of the catalog downloaded where the order of the pages is observed
OrderPages == 2
\* page counts for which the percentages of every progress message are computed
ProgressPages == 4
\* loadBook invocations past the guard that are followed at the same time
MaxLoads == 2
\* touchend events followed
MaxTouchEnds == 3
\* Date.now() when the page is loaded, in milliseconds
ClockStart == 1000
\* milliseconds of touches followed after the page is loaded
ClockSpan == 900

\* ----------------------------------------------------------------- strings
IsPrefix(p, s) == Len(p) <= Len(s) /\ SubSeq(s, 1, Len(p)) = p

\* String.prototype.includes
Includes(s, needle) ==
    \E k \in 0..(Len(s) - Len(needle)) : SubSeq(s, k + 1, k + Len(needle)) = needle

\* String.prototype.startsWith
StartsWith(s, p) == IsPrefix(p, s)

\* s.replace(/\/$/, '')
StripTrailingSlash(s) ==
    IF Len(s) > 0 /\ s[Len(s)] = "/" THEN SubSeq(s, 1, Len(s) - 1) ELSE s

\* a replace that removes every occurrence of p in s
RECURSIVE ReplaceAll(_, _)
ReplaceAll(s, p) ==
    IF Len(s) < Len(p) \/ Len(p) = 0 THEN s
    ELSE IF IsPrefix(p, s) THEN ReplaceAll(SubSeq(s, Len(p) + 1, Len(s)), p)
    ELSE <<Head(s)>> \o ReplaceAll(Tail(s), p)

\* name.replace(CACHE_PREFIX, ''): the first occurrence of p in s is removed
RECURSIVE ReplaceFirst(_, _)
ReplaceFirst(s, p) ==
    IF Len(s) < Len(p) THEN s
    ELSE IF IsPrefix(p, s) THEN SubSeq(s, Len(p) + 1, Len(s))
    ELSE <<Head(s)>> \o ReplaceFirst(Tail(s), p)

\* a percentage that forgets to divide by the total
RoundPercentOfOne(cached, total) == cached * 100
\* Math.round(cached / total * 100), total > 0
RoundPercent(cached, total) == (200 * cached + total) \div (2 * total)

\* ------------------------------------------------------------ store names
CACHE_NAME == <<"flipbook-pwa-v1">>
RUNTIME_CACHE == <<"flipbook-runtime-v1">>
ASSET_CACHE == <<"flipbook-assets-v1">>
CACHE_PREFIX == <<"flipbook-cache-">>
\* a store left by an earlier deployment
STALE_CACHE == <<"flipbook-pwa-v0">>

\* ------------------------------------------------------------------- URLs
BASE_URL == <<"/", "HighPowerCatalog", "/">>
\* main.ts registers `${BASE_URL}sw.js`: the worker's self.location.pathname
SwLocationPathname == BASE_URL \o <<"sw.js">>

BookIds == {"a", "b"}

PageName(i) == <<"page-" \o ToString(i)>>

\* one entry of manifest.pages
BookPage(i) ==
    [pageNumber |-> i,
     image      |-> <<"pages", "/">> \o PageName(i),
     thumbnail  |-> <<"thumbs", "/">> \o PageName(i)]

\* manifest.coverImage: a thumbnail of its own, or empty
CoverImage == <<"thumbs", "/">> \o PageName(0)
NoCover == <<>>

\* a manifest with n pages
BookManifest(id, n) ==
    [id         |-> id,
     coverImage |-> CoverImage,
     pages      |-> [i \in 1..n |-> BookPage(i)]]

\* the page counts of the manifests: none, and the most
PageCounts == {0, MaxPages}

Manifests ==
    {[BookManifest(id, n) EXCEPT !.coverImage = c] :
        id \in BookIds, n \in PageCounts, c \in {CoverImage, NoCover}}

\* viewer.ts: the URLs the viewer requests
ViewerManifestUrl(bookId) == BASE_URL \o <<"books", "/", bookId, "/", "manifest.json">>
ViewerPageUrl(m, i) == BASE_URL \o <<"books", "/", m.id, "/">> \o m.pages[i].image
ViewerThumbUrl(m, i) == BASE_URL \o <<"books", "/", m.id, "/">> \o m.pages[i].thumbnail

\* sw.js cacheBook: the URLs the worker stores
SwBaseUrl == StripTrailingSlash(SwLocationPathname)
SwManifestUrl(bookId) == SwBaseUrl \o <<"/", "books", "/", bookId, "/", "manifest.json">>
SwPageUrl(bookId, page) == SwBaseUrl \o <<"/", "books", "/", bookId, "/">> \o page.image
SwThumbUrl(bookId, page) == SwBaseUrl \o <<"/", "books", "/", bookId, "/">> \o page.thumbnail

\* ------------------------------------------------------------------ state
VARIABLES
    manager,        \* which CacheManager the page runs: "cache.ts" or "guide"
    online,         \* the network is reachable
    serverVersion,  \* version of the bodies the server currently serves
    controller,     \* navigator.serviceWorker.controller is set
    cachesInWindow, \* 'caches' in window
    caches,         \* CacheStorage: store name -> set of entries
    state,          \* cache.ts CacheManager.state
    calls,          \* cache.ts cacheBook invocations in flight, with channel and worker run
    cacheState,     \* IMPLEMENTATION_GUIDE.md CacheManager.cacheState
    doc,            \* IMPLEMENTATION_GUIDE.md downloadBookForOffline / deleteOfflineBook runs
    fetches,        \* sw.js fetch listener: the event being handled
    stateChangeCallbacks, \* CacheManager.stateChangeCallbacks: the registrations, in order
    unsubscribes,   \* what each onStateChange call returned
    viewer,         \* viewer.ts FlipbookViewer: manifest, page index, loads in flight
    gesture,        \* gestures.ts GestureHandler: touch start, last tap, touchends handled
    tasks           \* the constructor's checkOfflineStatus and clearCache runs in flight

vars == <<manager, online, serverVersion, controller, cachesInWindow, caches, state, calls,
          cacheState, doc, fetches, stateChangeCallbacks, unsubscribes, viewer, gesture, tasks>>

\* ----------------------------------------------------------- CacheStorage
Entry(url, status, body) == [url |-> url, status |-> status, body |-> body]

\* caches.open(name): the store is created when absent
CachesOpen(cs, name) ==
    [n \in (DOMAIN cs) \cup {name} |-> IF n \in DOMAIN cs THEN cs[n] ELSE {}]

\* a put that leaves the store with the new entry alone
CachePutAlone(cs, name, e) == [n \in (DOMAIN cs) \cup {name} |-> IF n = name THEN {e} ELSE cs[n]]

\* cache.put(url, response) on the store `name`: replaces the entry of that URL
CachePut(cs, name, e) ==
    [n \in (DOMAIN cs) \cup {name} |->
        IF n = name
        THEN {x \in (IF n \in DOMAIN cs THEN cs[n] ELSE {}) : x.url # e.url} \cup {e}
        ELSE cs[n]]

\* caches.delete(name)
CachesDelete(cs, name) == [n \in (DOMAIN cs) \ {name} |-> cs[n]]

\* caches.keys()
CachesKeys(cs) == DOMAIN cs

\* cache.match(url) on one store: the entries of that URL (at most one)
CacheMatch(cs, name, url) ==
    IF name \in DOMAIN cs THEN {e \in cs[name] : e.url = url} ELSE {}

\* caches.match(request): the entries of that URL in any store
CachesMatch(cs, url) == UNION {CacheMatch(cs, n, url) : n \in DOMAIN cs}

StoredUrls(cs, name) == IF name \in DOMAIN cs THEN {e.url : e \in cs[name]} ELSE {}

\* -------------------------------------------------------------- network
\* fetch(): resolves with an OK response, resolves with a non-OK response, or rejects
FetchOutcomes == IF online THEN {"ok", "notok", "reject"} ELSE {"reject"}

\* ------------------------------------------- cache.ts CacheManager state
InitialState == [isOfflineReady |-> FALSE, isCaching |-> FALSE, cacheProgress |-> 0]

\* { ...this.state, ...newState }
Merge(old, new) == [k \in DOMAIN old |-> IF k \in DOMAIN new THEN new[k] ELSE old[k]]

\* what a registered callback does with the object it is called with: "f" only
\* reads it, "g" assigns to its cacheProgress property
CallbackRun(callback, object) ==
    IF callback = "g" THEN [object EXCEPT !.cacheProgress = 0] ELSE object

\* stateChangeCallbacks.forEach(cb => cb(this.state)): every callback is called
\* with the manager's state object itself, in registration order. `handed` is
\* what each callback found in the object when it was called, `object` what the
\* object holds after the last callback
RECURSIVE ForEachCallback(_, _)
ForEachCallback(registrations, object) ==
    IF registrations = <<>> THEN [object |-> object, handed |-> <<>>]
    ELSE LET rest == ForEachCallback(Tail(registrations),
                                     CallbackRun(Head(registrations).callback, object))
         IN  [object |-> rest.object, handed |-> <<object>> \o rest.handed]

\* setState(newState)
SetState(newState) ==
    state' = ForEachCallback(stateChangeCallbacks, Merge(state, newState)).object

\* ------------------------------------------------- messages on the channel
\* a progress message that counts from 0
CacheProgressMsgFromZero(cached, total) ==
    [type |-> "CACHE_PROGRESS", cached |-> cached - 1, total |-> total, success |-> FALSE]
CacheProgressMsg(cached, total) ==
    [type |-> "CACHE_PROGRESS", cached |-> cached, total |-> total, success |-> FALSE]
CacheCompleteMsg(success) ==
    [type |-> "CACHE_COMPLETE", cached |-> 0, total |-> 0, success |-> success]

\* the values of cacheProgress seen so far, with one more: a value equal to the
\* last one seen is not a new observation
Observe(seen, value) ==
    IF seen # <<>> /\ seen[Len(seen)] = value THEN seen ELSE Append(seen, value)

\* one cacheBook invocation: the caller's promise, port1 of its MessageChannel with
\* the messages posted to it and not yet handled, its timer, and the worker's
\* run of cacheBook(bookId, pages, port). failed records the items of the run whose
\* own fetch or put failed, ended how the run ended, puts the number of cache.put
\* calls of the run, progress the values cacheProgress took from the invocation on,
\* sent the messages the run passed to port.postMessage, log the fetch and
\* cache.put calls of the run in the order they were made.
NewCall(manifest) ==
    [manifest  |-> manifest,
     promise   |-> "pending",
     reason    |-> "none",
     port1     |-> "open",
     timer     |-> "armed",
     inbox     |-> <<>>,
     pc        |-> "posted",
     i         |-> 1,
     cached    |-> 0,
     pageResponse  |-> "none",
     thumbResponse |-> "none",
     failed    |-> {},
     ended     |-> "none",
     puts      |-> 0,
     progress  |-> <<>>,
     sent      |-> <<>>,
     log       |-> <<>>]

\* a slot no invocation uses
IdleCall ==
    [NewCall(BookManifest("a", 0)) EXCEPT !.promise = "none", !.port1 = "closed",
                                          !.timer = "none", !.pc = "none"]

\* the invocation of slot c is over: its promise is settled, the worker's run has
\* returned and no message of it can still arrive
Ended(call) ==
    /\ call.promise \in {"resolved", "rejected"}
    /\ call.pc \in {"none", "done"}
    /\ call.inbox = <<>>

Free(call) == call.promise = "none" \/ Ended(call)

\* cache.ts 33-35: the guard throws inside the async function, so the promise
\* it returns is rejected and nothing else happens
UnavailableCall(manifest) ==
    [NewCall(manifest) EXCEPT !.promise = "rejected", !.reason = "unavailable",
                              !.port1 = "closed", !.timer = "none", !.pc = "none"]

\* port.postMessage(msg): a message for a closed port1 is discarded
PostMessage(call, msg) ==
    IF call.port1 = "open"
    THEN [call EXCEPT !.inbox = Append(@, msg), !.sent = Append(@, msg)]
    ELSE [call EXCEPT !.sent = Append(@, msg)]

\* one call of fetch, cache.put or cache.add for an item of the catalog
Attempt(op, item) == [op |-> op, item |-> item]

NPages(call) == Len(call.manifest.pages)
\* a total that counts one more item than the pages and thumbnails
TotalItemsWithCover(call) == NPages(call) * 2 + 1
\* const totalItems = pages.length * 2
TotalItems(call) == NPages(call) * 2

\* cache.put through the handle the run opened: a store deleted meanwhile is not
\* brought back by it
HandlePut(cs, name, e) == IF name \in DOMAIN cs THEN CachePut(cs, name, e) ELSE cs

\* ----------------------------------------------- cache.ts cacheBook (client)
\* cacheBook(manifest), up to the return of the promise
CacheBook(c, manifest) ==
    /\ manager = "cache.ts"
    /\ Free(calls[c])
    /\ calls' = [calls EXCEPT ![c] =
                    [(IF controller THEN NewCall(manifest) ELSE UnavailableCall(manifest))
                        EXCEPT !.progress = <<state.cacheProgress>>]]
    /\ UNCHANGED <<manager, online, serverVersion, controller, cachesInWindow, caches,
                   state, cacheState, doc, fetches, stateChangeCallbacks, unsubscribes, viewer, gesture, tasks>>

\* port1.onmessage with a CACHE_COMPLETE branch that forgets cacheProgress
OnMessageStateNoProgress(msg) ==
    IF msg.type = "CACHE_COMPLETE"
    THEN IF msg.success
         THEN [isOfflineReady |-> TRUE, isCaching |-> FALSE]
         ELSE [k \in {} |-> 0]
    ELSE [isCaching |-> TRUE, cacheProgress |-> RoundPercent(msg.cached, msg.total)]

\* cacheBook(manifest) invoked while no other invocation is in flight
CacheBookAlone(manifest) ==
    /\ \A c \in 1..MaxCalls : Free(calls[c])
    /\ CacheBook(1, manifest)

\* the state change of port1.onmessage for one message
OnMessageState(msg) ==
    IF msg.type = "CACHE_COMPLETE"
    THEN IF msg.success
         THEN [isOfflineReady |-> TRUE, isCaching |-> FALSE, cacheProgress |-> 100]
         ELSE [k \in {} |-> 0]
    ELSE [isCaching |-> TRUE, cacheProgress |-> RoundPercent(msg.cached, msg.total)]

\* the settlement of the promise by port1.onmessage for one message
OnMessagePromise(call, msg) ==
    IF msg.type = "CACHE_COMPLETE" /\ call.promise = "pending"
    THEN IF msg.success
         THEN [call EXCEPT !.promise = "resolved"]
         ELSE [call EXCEPT !.promise = "rejected", !.reason = "failed"]
    ELSE call

\* channel.port1.close() after CACHE_COMPLETE
OnMessagePort(call, msg) ==
    IF msg.type = "CACHE_COMPLETE"
    THEN [call EXCEPT !.port1 = "closed", !.inbox = <<>>]
    ELSE [call EXCEPT !.inbox = Tail(@)]

\* channel.port1.onmessage
PortOnMessage(c) ==
    /\ calls[c].port1 = "open"
    /\ calls[c].inbox # <<>>
    /\ LET msg == Head(calls[c].inbox) IN
         /\ SetState(OnMessageState(msg))
         /\ calls' = [calls EXCEPT ![c] =
                         [OnMessagePort(OnMessagePromise(@, msg), msg)
                            EXCEPT !.progress = Observe(@, state'.cacheProgress)]]
    /\ UNCHANGED <<manager, online, serverVersion, controller, cachesInWindow, caches,
                   cacheState, doc, fetches, stateChangeCallbacks, unsubscribes, viewer, gesture, tasks>>

\* a timer callback that overrides a promise already settled
TimeoutCallAlways(call) ==
    [call EXCEPT !.timer = "fired", !.port1 = "closed", !.inbox = <<>>,
                 !.promise = "rejected", !.reason = "timeout"]
\* what the timer callback does to the call
\* a timeout that rejects and leaves port1 open
TimeoutCallKeepsPort(call) ==
    [call EXCEPT !.timer = "fired",
                 !.promise = IF @ = "pending" THEN "rejected" ELSE @,
                 !.reason = IF call.promise = "pending" THEN "timeout" ELSE @]
TimeoutCall(call) ==
    [call EXCEPT !.timer = "fired", !.port1 = "closed", !.inbox = <<>>,
                 !.promise = IF @ = "pending" THEN "rejected" ELSE @,
                 !.reason = IF call.promise = "pending" THEN "timeout" ELSE @]

\* what the timer callback does to the progress state: it assigns nothing and
\* does not call setState
TimeoutState == [k \in {} |-> 0]

\* setTimeout(..., 5 * 60 * 1000) callback
Timeout(c) ==
    /\ calls[c].timer = "armed"
    /\ calls' = [calls EXCEPT ![c] = TimeoutCall(@)]
    /\ state' = Merge(state, TimeoutState)
    /\ UNCHANGED <<manager, online, serverVersion, controller, cachesInWindow, caches,
                   cacheState, doc, fetches, stateChangeCallbacks, unsubscribes, viewer, gesture, tasks>>

\* ------------------------------------------------- sw.js message / cacheBook
ClientVars == <<manager, online, serverVersion, controller, cachesInWindow, state,
                cacheState, doc, fetches, stateChangeCallbacks, unsubscribes, viewer, gesture, tasks>>

\* self.addEventListener('message'): CACHE_BOOK starts cacheBook(bookId, pages, port)
SwOnMessage(c) ==
    /\ calls[c].pc = "posted"
    /\ calls' = [calls EXCEPT ![c].pc = "open"]
    /\ UNCHANGED <<caches>>
    /\ UNCHANGED ClientVars

\* the outer catch: CACHE_COMPLETE {success: false}
SwFatal(call) ==
    [PostMessage(call, CacheCompleteMsg(FALSE)) EXCEPT !.pc = "done", !.ended = "fatal"]

\* const cache = await caches.open(RUNTIME_CACHE)
SwOpen(c) ==
    /\ calls[c].pc = "open"
    /\ \E opened \in BOOLEAN :
          IF opened
          THEN /\ caches' = CachesOpen(caches, RUNTIME_CACHE)
               /\ calls' = [calls EXCEPT ![c].pc = "manifest"]
          ELSE /\ caches' = caches
               /\ calls' = [calls EXCEPT ![c] = SwFatal(@)]
    /\ UNCHANGED ClientVars

\* the pc after the page at index i is finished
NextPagePc(call) == IF call.i < NPages(call) THEN "fetch" ELSE "complete"

\* fetch(manifestUrl), then cache.put when the response is OK, inside its own try
\* a manifest step that stores whatever answer the server gave
SwStoresAnyAnswer(r, put) == r # "reject" /\ put
\* if (manifestResponse.ok) await cache.put(manifestUrl, ...): the put may reject
SwStores(r, put) == r = "ok" /\ put

SwManifest(c) ==
    /\ calls[c].pc = "manifest"
    /\ \E r \in FetchOutcomes, put \in BOOLEAN :
          LET url == SwManifestUrl(calls[c].manifest.id) IN
          /\ caches' = IF SwStores(r, put)
                       THEN HandlePut(caches, RUNTIME_CACHE,
                                      Entry(url, IF r = "ok" THEN 200 ELSE 404, serverVersion))
                       ELSE caches
          /\ calls' = [calls EXCEPT
                         ![c].failed = IF r = "ok" /\ put THEN {} ELSE {"manifest"},
                         ![c].puts = IF r = "ok" THEN @ + 1 ELSE @,
                         ![c].log = @ \o <<Attempt("fetch", "manifest")>>
                                      \o (IF r = "ok" THEN <<Attempt("put", "manifest")>>
                                                      ELSE <<>>),
                         ![c].pc = IF NPages(calls[c]) > 0 THEN "fetch" ELSE "complete"]
    /\ UNCHANGED ClientVars

ImageKey(i) == "image-" \o ToString(i)
ThumbKey(i) == "thumb-" \o ToString(i)

\* a Promise.all given the thumbnail's fetch first
PromiseAllFetchesThumbFirst(i) ==
    <<[op |-> "fetch", item |-> "thumb-" \o ToString(i)],
      [op |-> "fetch", item |-> "image-" \o ToString(i)]>>
\* the two fetches a page's Promise.all is given, in the order of the array:
\* both are called before either is awaited
PromiseAllFetches(i) == <<Attempt("fetch", ImageKey(i)), Attempt("fetch", ThumbKey(i))>>

\* the pc after Promise.all([fetch(pageUrl), fetch(thumbUrl)]) settles: a rejection
\* of either fetch rejects the whole and goes to the catch of this page
AfterPromiseAll(call, pr, tr) ==
    IF pr = "reject" \/ tr = "reject" THEN NextPagePc(call) ELSE "putPage"

\* await Promise.all([fetch(pageUrl), fetch(thumbUrl)])
SwFetchPage(c) ==
    /\ calls[c].pc = "fetch"
    /\ \E pr \in FetchOutcomes, tr \in FetchOutcomes :
          LET call == calls[c]
              pc2  == AfterPromiseAll(call, pr, tr) IN
          calls' = [calls EXCEPT
                      ![c].pageResponse = IF pc2 = "putPage" THEN pr ELSE "none",
                      ![c].thumbResponse = IF pc2 = "putPage" THEN tr ELSE "none",
                      ![c].failed = @ \cup (IF pr # "ok" THEN {ImageKey(call.i)} ELSE {})
                                      \cup (IF tr # "ok" THEN {ThumbKey(call.i)} ELSE {}),
                      ![c].log = @ \o PromiseAllFetches(call.i),
                      ![c].pc = pc2,
                      ![c].i = IF pc2 = "fetch" THEN @ + 1 ELSE @]
    /\ UNCHANGED <<caches>>
    /\ UNCHANGED ClientVars

\* if (pageResponse.ok) { await cache.put(pageUrl, ...); cached++; postMessage(...) }
SwPutPage(c) ==
    /\ calls[c].pc = "putPage"
    /\ LET call == calls[c]
           url  == SwPageUrl(call.manifest.id, call.manifest.pages[call.i]) IN
       IF call.pageResponse = "ok"
       THEN \E put \in BOOLEAN :
              IF put
              THEN /\ caches' = HandlePut(caches, RUNTIME_CACHE,
                                          Entry(url, 200, serverVersion))
                   /\ calls' = [calls EXCEPT ![c] =
                        [PostMessage(call, CacheProgressMsg(call.cached + 1,
                                                            TotalItems(call)))
                           EXCEPT !.cached = @ + 1,
                                  !.puts = @ + 1,
                                  !.log = Append(@, Attempt("put", ImageKey(call.i))),
                                  !.pageResponse = "none",
                                  !.pc = "putThumb"]]
              ELSE /\ caches' = caches
                   /\ calls' = [calls EXCEPT ![c].failed = @ \cup {ImageKey(call.i)},
                                             ![c].puts = @ + 1,
                                             ![c].log = Append(@, Attempt("put", ImageKey(call.i))),
                                             ![c].pageResponse = "none",
                                             ![c].thumbResponse = "none",
                                             ![c].pc = NextPagePc(call),
                                             ![c].i = IF NextPagePc(call) = "fetch"
                                                      THEN @ + 1 ELSE @]
       ELSE /\ caches' = caches
            /\ calls' = [calls EXCEPT ![c].pc = "putThumb", ![c].pageResponse = "none"]
    /\ UNCHANGED ClientVars

\* if (thumbResponse.ok) { await cache.put(thumbUrl, ...); cached++; postMessage(...) }
SwPutThumb(c) ==
    /\ calls[c].pc = "putThumb"
    /\ LET call == calls[c]
           url  == SwThumbUrl(call.manifest.id, call.manifest.pages[call.i])
           next == [call EXCEPT !.pc = NextPagePc(call),
                                !.thumbResponse = "none",
                                !.i = IF NextPagePc(call) = "fetch" THEN @ + 1 ELSE @] IN
       IF call.thumbResponse = "ok"
       THEN \E put \in BOOLEAN :
              IF put
              THEN /\ caches' = HandlePut(caches, RUNTIME_CACHE,
                                          Entry(url, 200, serverVersion))
                   /\ calls' = [calls EXCEPT ![c] =
                        [PostMessage(next, CacheProgressMsg(call.cached + 1,
                                                            TotalItems(call)))
                           EXCEPT !.cached = @ + 1, !.puts = @ + 1,
                                  !.log = Append(@, Attempt("put", ThumbKey(call.i)))]]
              ELSE /\ caches' = caches
                   /\ calls' = [calls EXCEPT ![c] =
                                  [next EXCEPT !.failed = @ \cup {ThumbKey(call.i)},
                                               !.puts = @ + 1,
                                               !.log = Append(@, Attempt("put", ThumbKey(call.i)))]]
       ELSE /\ caches' = caches
            /\ calls' = [calls EXCEPT ![c] = next]
    /\ UNCHANGED ClientVars

\* a run that ends with one more progress message instead
SwCompleteMsgProgress == CacheProgressMsg(1, 1)
\* the message that ends a run whose loop completed
SwCompleteMsg == CacheCompleteMsg(TRUE)

\* port.postMessage({ type: 'CACHE_COMPLETE', success: true })
SwComplete(c) ==
    /\ calls[c].pc = "complete"
    /\ calls' = [calls EXCEPT ![c] = [PostMessage(@, SwCompleteMsg) EXCEPT !.pc = "done",
                                                                       !.ended = "normal"]]
    /\ UNCHANGED <<caches>>
    /\ UNCHANGED ClientVars

\* ------------------------- IMPLEMENTATION_GUIDE.md CacheManager (documented)
DocVars == <<manager, online, serverVersion, controller, cachesInWindow, state, calls, fetches, stateChangeCallbacks, unsubscribes, viewer, gesture, tasks>>

\* updateState(partial)
UpdateState(partial) ==
    cacheState' = ForEachCallback(stateChangeCallbacks, Merge(cacheState, partial)).object

CatalogStore(bookId) == CACHE_PREFIX \o <<bookId>>
DocManifestUrl(m) == BASE_URL \o <<"books", "/", m.id, "/", "manifest.json">>
DocPageUrl(m, i) == BASE_URL \o <<"books", "/", m.id, "/">> \o m.pages[i].image
DocThumbUrl(m, i) == BASE_URL \o <<"books", "/", m.id, "/">> \o m.pages[i].thumbnail
DocCoverUrl(m) == BASE_URL \o <<"books", "/", m.id, "/">> \o m.coverImage

IdleDoc ==
    [pc |-> "idle", op |-> "none", manifest |-> BookManifest("a", 0), i |-> 1,
     cachedItems |-> 0, outcome |-> "none", failed |-> {}, promise |-> "none",
     adds |-> 0, progress |-> <<>>, log |-> <<>>]

\* cache.add(url): fetch and put; rejects when the fetch rejects, the response is
\* not OK or the put fails
CacheAddOutcomes == IF online THEN {"ok", "fail"} ELSE {"fail"}

\* downloadBookForOffline(manifest), up to the first await
DownloadBookForOffline(manifest) ==
    /\ manager = "guide"
    /\ doc.pc = "idle"
    /\ IF ~cachesInWindow
       THEN /\ doc' = [IdleDoc EXCEPT !.op = "download", !.manifest = manifest,
                                      !.outcome = "unavailable", !.promise = "resolved"]
            /\ cacheState' = cacheState
       ELSE /\ doc' = [IdleDoc EXCEPT !.op = "download", !.manifest = manifest,
                                      !.pc = "open", !.promise = "pending",
                                      !.progress = <<0>>]
            /\ UpdateState([isCaching |-> TRUE, cacheProgress |-> 0])
    /\ UNCHANGED <<caches>>
    /\ UNCHANGED DocVars

\* the outer catch of downloadBookForOffline
DocCatch == [isCaching |-> FALSE]

\* const cache = await caches.open(cacheName)
DocOpen ==
    /\ doc.pc = "open"
    /\ \E opened \in BOOLEAN :
          IF opened
          THEN /\ caches' = CachesOpen(caches, CatalogStore(doc.manifest.id))
               /\ doc' = [doc EXCEPT !.pc = "manifest"]
               /\ cacheState' = cacheState
          ELSE /\ caches' = caches
               /\ doc' = [doc EXCEPT !.pc = "idle", !.outcome = "failed",
                                     !.promise = "resolved"]
               /\ UpdateState(DocCatch)
    /\ UNCHANGED DocVars

DocAfterPages(d) == IF Len(d.manifest.pages) > 0 THEN "page" ELSE "cover"

\* await cache.add(manifestUrl): not inside an inner try
DocManifest ==
    /\ doc.pc = "manifest"
    /\ \E r \in CacheAddOutcomes :
          IF r = "ok"
          THEN /\ caches' = HandlePut(caches, CatalogStore(doc.manifest.id),
                                      Entry(DocManifestUrl(doc.manifest), 200, serverVersion))
               /\ doc' = [doc EXCEPT !.pc = DocAfterPages(doc), !.adds = @ + 1,
                                     !.log = Append(@, Attempt("add", "manifest"))]
               /\ cacheState' = cacheState
          ELSE /\ caches' = caches
               /\ doc' = [doc EXCEPT !.pc = "idle", !.outcome = "failed",
                                     !.failed = @ \cup {"manifest"},
                                     !.promise = "resolved", !.adds = @ + 1,
                                     !.log = Append(@, Attempt("add", "manifest"))]
               /\ UpdateState(DocCatch)
    /\ UNCHANGED DocVars

\* const totalItems = manifest.pages.length * 2
DocTotalItems(d) == Len(d.manifest.pages) * 2

DocProgress(d) == RoundPercent(d.cachedItems + 1, DocTotalItems(d))

\* try { await cache.add(pageUrl); cachedItems++; updateState(...) } catch { warn }
DocPage ==
    /\ doc.pc = "page"
    /\ \E r \in CacheAddOutcomes :
          IF r = "ok"
          THEN /\ caches' = HandlePut(caches, CatalogStore(doc.manifest.id),
                                      Entry(DocPageUrl(doc.manifest, doc.i), 200, serverVersion))
               /\ doc' = [doc EXCEPT !.pc = "thumb", !.cachedItems = @ + 1,
                                     !.adds = @ + 1,
                                     !.log = Append(@, Attempt("add", ImageKey(doc.i))),
                                     !.progress = Observe(@, DocProgress(doc))]
               /\ UpdateState([cacheProgress |-> DocProgress(doc)])
          ELSE /\ caches' = caches
               /\ doc' = [doc EXCEPT !.pc = "thumb", !.failed = @ \cup {ImageKey(doc.i)},
                                     !.adds = @ + 1,
                                     !.log = Append(@, Attempt("add", ImageKey(doc.i)))]
               /\ cacheState' = cacheState
    /\ UNCHANGED DocVars

DocNextPagePc(d) == IF d.i < Len(d.manifest.pages) THEN "page" ELSE "cover"

\* try { await cache.add(thumbUrl); cachedItems++; updateState(...) } catch { warn }
DocThumb ==
    /\ doc.pc = "thumb"
    /\ LET next == [doc EXCEPT !.pc = DocNextPagePc(doc),
                               !.adds = @ + 1,
                               !.log = Append(@, Attempt("add", ThumbKey(doc.i))),
                               !.i = IF DocNextPagePc(doc) = "page" THEN @ + 1 ELSE @] IN
       \E r \in CacheAddOutcomes :
          IF r = "ok"
          THEN /\ caches' = HandlePut(caches, CatalogStore(doc.manifest.id),
                                      Entry(DocThumbUrl(doc.manifest, doc.i), 200, serverVersion))
               /\ doc' = [next EXCEPT !.cachedItems = @ + 1,
                                      !.progress = Observe(@, DocProgress(doc))]
               /\ UpdateState([cacheProgress |-> DocProgress(doc)])
          ELSE /\ caches' = caches
               /\ doc' = [next EXCEPT !.failed = @ \cup {ThumbKey(doc.i)}]
               /\ cacheState' = cacheState
    /\ UNCHANGED DocVars

\* the state set after the loop and the cover
DocFinalState == [isOfflineReady |-> TRUE, isCaching |-> FALSE, cacheProgress |-> 100]

\* if (manifest.coverImage) { try { await cache.add(coverUrl) } catch { warn } }
\* followed by the final updateState
DocCover ==
    /\ doc.pc = "cover"
    /\ \E r \in IF doc.manifest.coverImage # NoCover THEN CacheAddOutcomes ELSE {"skip"} :
          /\ caches' = IF r = "ok"
                       THEN HandlePut(caches, CatalogStore(doc.manifest.id),
                                      Entry(DocCoverUrl(doc.manifest), 200, serverVersion))
                       ELSE caches
          /\ doc' = [doc EXCEPT !.pc = "idle", !.outcome = "completed",
                                !.promise = "resolved",
                                !.adds = IF r = "skip" THEN @ ELSE @ + 1,
                                !.log = IF r = "skip" THEN @
                                        ELSE Append(@, Attempt("add", "cover")),
                                !.progress = Observe(@, DocFinalState.cacheProgress),
                                !.failed = IF r = "fail" THEN @ \cup {"cover"} ELSE @]
    /\ UpdateState(DocFinalState)
    /\ UNCHANGED DocVars

\* getOfflineBookIds(): the value returned
GetOfflineBookIds ==
    IF ~cachesInWindow THEN {}
    ELSE {ReplaceFirst(name, CACHE_PREFIX) :
            name \in {n \in CachesKeys(caches) : StartsWith(n, CACHE_PREFIX)}}

\* a deleteOfflineBook that deletes the worker's runtime store
DeletedStoreRuntime(bookId) == RUNTIME_CACHE
\* the store deleteOfflineBook(bookId) deletes
DeletedStore(bookId) == CatalogStore(bookId)

\* deleteOfflineBook(bookId)
DeleteOfflineBook(bookId) ==
    /\ manager = "guide"
    /\ doc.pc = "idle"
    /\ IF ~cachesInWindow
       THEN /\ caches' = caches
            /\ cacheState' = cacheState
       ELSE /\ caches' = CachesDelete(caches, DeletedStore(bookId))
            /\ UpdateState([isOfflineReady |-> FALSE])
    /\ doc' = [IdleDoc EXCEPT !.op = "delete", !.manifest = BookManifest(bookId, 0),
                              !.outcome = "completed", !.promise = "resolved"]
    /\ UNCHANGED DocVars

\* cache.ts isBookCached(bookId): the value returned (the lookup opens the runtime
\* store, which holds no entry when it is created by that)
IsBookCached(bookId) ==
    /\ cachesInWindow
    /\ CacheMatch(caches, RUNTIME_CACHE, ViewerManifestUrl(bookId)) # {}

\* ------------------------------------------------ CacheManager.onStateChange
\* the callback functions the page registers
Callbacks == {"f", "g"}

\* the array entry pushed by the k-th onStateChange call: the callback function,
\* with k telling the entries of one function apart
Registration(callback, k) == [callback |-> callback, id |-> k]

\* what onStateChange returns: cache.ts returns nothing, the documented manager a
\* closure over `callback`
Returned(callback, k) ==
    [callback |-> callback, id |-> k,
     returns |-> IF manager = "guide" THEN "function" ELSE "void"]

\* stateChangeCallbacks.filter(cb => cb !== callback)
FilterCallbacks(registrations, callback) ==
    SelectSeq(registrations, LAMBDA r : r.callback # callback)

\* onStateChange(callback)
OnStateChange(callback) ==
    /\ Cardinality(unsubscribes) < MaxSubscribes
    /\ LET k == Cardinality(unsubscribes) + 1 IN
         /\ stateChangeCallbacks' = Append(stateChangeCallbacks, Registration(callback, k))
         /\ unsubscribes' = unsubscribes \cup {Returned(callback, k)}
    /\ UNCHANGED <<manager, online, serverVersion, controller, cachesInWindow, caches,
                   state, calls, cacheState, doc, fetches, viewer, gesture, tasks>>

\* a call of the function the documented onStateChange returned
Unsubscribe(u) ==
    /\ u \in unsubscribes
    /\ u.returns = "function"
    /\ stateChangeCallbacks' = FilterCallbacks(stateChangeCallbacks, u.callback)
    /\ UNCHANGED <<manager, online, serverVersion, controller, cachesInWindow, caches,
                   state, calls, cacheState, doc, fetches, unsubscribes, viewer, gesture, tasks>>

\* --------------------------------------------------------- sw.js activate
\* the test of the activate listener: the names that are not deleted
KeptOnActivate(cacheName) ==
    cacheName = CACHE_NAME \/ cacheName = RUNTIME_CACHE \/ cacheName = ASSET_CACHE

\* self.addEventListener('activate'): delete the other stores, then clients.claim()
Activate ==
    /\ caches' = [n \in {m \in CachesKeys(caches) : KeptOnActivate(m)} |-> caches[n]]
    /\ controller' = TRUE
    /\ UNCHANGED <<manager, online, serverVersion, cachesInWindow, state, calls,
                   cacheState, doc, fetches, stateChangeCallbacks, unsubscribes, viewer, gesture, tasks>>

\* ------------------------------------------------------------ sw.js fetch
Methods == {"GET", "POST"}
\* url.protocol, as tokens
Protocols == {<<"http", "s:">>, <<"chrome-extension:">>}

ManifestMarker == <<"/", "manifest.json">>
BooksMarker == <<"/", "books", "/">>

ShellUrl == BASE_URL \o <<"index.html">>
RootManifestUrl == BASE_URL \o <<"manifest.json">>

\* the paths requests are drawn from: a catalog's manifest, a page image, the
\* application shell, and a manifest.json outside /books/
RequestPaths ==
    {ViewerManifestUrl("a"), ViewerPageUrl(BookManifest("a", 1), 1), ShellUrl,
     RootManifestUrl}

Requests == [method : Methods, protocol : Protocols, pathname : RequestPaths]

NoResponse == [kind |-> "none", status |-> 0, body |-> 0, text |-> ""]
NetworkResponse(status, body) ==
    [kind |-> "network", status |-> status, body |-> body, text |-> ""]
CachedResponse(e) == [kind |-> "cache", status |-> e.status, body |-> e.body, text |-> ""]
\* new Response(text, { status: 503, statusText: 'Service Unavailable' })
SyntheticResponse(text) == [kind |-> "synthetic", status |-> 503, body |-> 0, text |-> text]
\* the promise given to respondWith rejected
RejectedResponse == [kind |-> "rejected", status |-> 0, body |-> 0, text |-> ""]

NoPut == [status |-> "none", store |-> <<>>, resp |-> 0, body |-> 0, rejection |-> "none"]

IdleFetch ==
    [pc |-> "idle",
     request |-> [method |-> "GET", protocol |-> <<"http", "s:">>, pathname |-> ShellUrl],
     strategy |-> "none", respondWith |-> FALSE, response |-> NoResponse,
     net |-> "none", netCalls |-> 0, put |-> NoPut]

\* the fetch listener with the /books/ test placed before the /manifest.json test
StrategyBooksFirst(request) ==
    IF ~StartsWith(request.protocol, <<"http">>) THEN "none"
    ELSE IF Includes(request.pathname, BooksMarker) THEN "cache-first"
    ELSE IF Includes(request.pathname, ManifestMarker) THEN "network-first"
    ELSE "stale-while-revalidate"

\* the routing of the fetch listener: the first test that holds decides
Strategy(request) ==
    IF ~StartsWith(request.protocol, <<"http">>) THEN "none"
    ELSE IF Includes(request.pathname, ManifestMarker) THEN "network-first"
    ELSE IF Includes(request.pathname, BooksMarker) THEN "cache-first"
    ELSE "stale-while-revalidate"

FetchVars == <<manager, online, serverVersion, controller, cachesInWindow, state, calls,
               cacheState, doc, stateChangeCallbacks, unsubscribes, viewer, gesture, tasks>>

\* self.addEventListener('fetch'): the synchronous part of the listener
FetchEvent(request) ==
    /\ fetches.pc \in {"idle", "done"}
    /\ LET st == Strategy(request) IN
       fetches' =
          [IdleFetch EXCEPT
             !.request = request,
             !.strategy = st,
             !.respondWith = (st # "none"),
             !.pc = CASE st = "none" -> "done"
                      [] st = "network-first" -> "net"
                      [] OTHER -> "match",
             !.net = IF st = "network-first" THEN "inflight" ELSE "none",
             !.netCalls = IF st = "network-first" THEN 1 ELSE 0]
    /\ UNCHANGED <<caches>>
    /\ UNCHANGED FetchVars

\* a lookup that never finds anything
MatchRequestNothing(cs, request) == {}

\* caches.match(event.request): a request that is not a GET matches nothing
MatchRequest(cs, request) ==
    IF request.method = "GET" THEN CachesMatch(cs, request.pathname) ELSE {}

\* a lookup step that goes to the network whatever the stores hold
FetchMatchNetworkAlways ==
    /\ fetches.pc = "match"
    /\ fetches' = [fetches EXCEPT !.pc = "net", !.net = "inflight", !.netCalls = @ + 1]
    /\ UNCHANGED <<caches>>
    /\ UNCHANGED FetchVars

\* caches.match(event.request).then(cached => ...) of cache-first and
\* stale-while-revalidate
FetchMatch ==
    /\ fetches.pc = "match"
    /\ LET f == fetches
           cached == MatchRequest(caches, f.request) IN
       IF cached # {}
       THEN \E e \in cached :
              fetches' =
                 IF f.strategy = "cache-first"
                 THEN [f EXCEPT !.response = CachedResponse(e), !.pc = "done"]
                 ELSE [f EXCEPT !.response = CachedResponse(e), !.pc = "net",
                                !.net = "inflight", !.netCalls = @ + 1]
       ELSE fetches' =
                 [f EXCEPT !.pc = "net", !.net = "inflight", !.netCalls = @ + 1]
    /\ UNCHANGED <<caches>>
    /\ UNCHANGED FetchVars

\* every strategy writing to the asset store
StrategyStoreAsset(strategy) == ASSET_CACHE

\* the store the strategy writes to
StrategyStore(strategy) ==
    IF strategy = "stale-while-revalidate" THEN ASSET_CACHE ELSE RUNTIME_CACHE

\* a .then that never caches the response
CachesResponseNever(f, r) == FALSE
\* a handler that stores every answer of the network
CachesResponseAlways(f, r) == TRUE

\* whether the .then of the network fetch goes on to cache the response
CachesResponse(f, r) ==
    IF f.strategy = "network-first" THEN r = "ok"
    ELSE r = "ok" /\ f.request.method = "GET"

\* a rejected network fetch left to reject the response in every strategy
OnFetchRejectedNoFallback(f) == RejectedResponse

\* a rejected network fetch answered with the 503 in every strategy
OnFetchRejectedSynthetic(f) == SyntheticResponse("Offline - resource not available")

\* what the caller gets when the network fetch rejected
OnFetchRejected(f) ==
    CASE f.strategy = "cache-first" -> SyntheticResponse("Offline - resource not available")
      [] f.strategy = "stale-while-revalidate" -> RejectedResponse
      [] OTHER -> NoResponse

\* fetch(event.request) settles
FetchNet ==
    /\ fetches.pc = "net"
    /\ fetches.net = "inflight"
    /\ \E r \in FetchOutcomes :
         LET f == fetches
             live == IF r = "ok" THEN NetworkResponse(200, serverVersion)
                     ELSE NetworkResponse(404, 0)
             answered == f.response # NoResponse IN
         fetches' =
            IF r = "reject"
            THEN [f EXCEPT !.net = "rejected",
                           !.response = IF answered THEN @ ELSE OnFetchRejected(f),
                           !.pc = IF f.strategy = "network-first" THEN "fallback"
                                  ELSE "done"]
            ELSE [f EXCEPT !.net = r,
                           !.response = IF answered THEN @ ELSE live,
                           !.put = IF CachesResponse(f, r)
                                   THEN [status |-> "pending",
                                         store |-> StrategyStore(f.strategy),
                                         resp |-> live.status, body |-> live.body,
                                         rejection |-> "none"]
                                   ELSE @,
                           !.pc = IF CachesResponse(f, r) THEN "put" ELSE "done"]
    /\ UNCHANGED <<caches>>
    /\ UNCHANGED FetchVars

\* the .catch of network-first: caches.match(event.request), else the 503
FetchFallback ==
    /\ fetches.pc = "fallback"
    /\ LET f == fetches
           cached == MatchRequest(caches, f.request) IN
       IF cached # {}
       THEN \E e \in cached :
              fetches' =
                 [f EXCEPT !.response = CachedResponse(e), !.pc = "done"]
       ELSE fetches' =
                 [f EXCEPT !.response = SyntheticResponse("Offline - manifest not available"),
                           !.pc = "done"]
    /\ UNCHANGED <<caches>>
    /\ UNCHANGED FetchVars

\* what becomes of a rejection of the background write: the promise of
\* caches.open(...).then(...) has no catch and the promise of cache.put is dropped,
\* so the rejection is reported as unhandled
PutRejection == "unhandled"

\* caches.open(store).then(cache => { cache.put(event.request, responseToCache) }):
\* not awaited by the response; cache.put rejects for a request that is not a GET
FetchPut ==
    /\ fetches.pc = "put"
    /\ fetches.put.status = "pending"
    /\ LET f == fetches IN
       \E stored \in IF f.request.method = "GET" THEN BOOLEAN ELSE {FALSE} :
          /\ caches' = IF stored
                       THEN CachePut(caches, f.put.store,
                                     Entry(f.request.pathname, f.put.resp, f.put.body))
                       ELSE caches
          /\ fetches' = [fetches EXCEPT !.put.status = IF stored THEN "done" ELSE "failed",
                                     !.put.rejection = IF stored THEN "none" ELSE PutRejection,
                                     !.pc = "done"]
    /\ UNCHANGED FetchVars

\* ------------------------------------------------------------ environment
GoOffline ==
    /\ online
    /\ online' = FALSE
    /\ UNCHANGED <<manager, serverVersion, controller, cachesInWindow, caches, state,
                   calls, cacheState, doc, fetches, stateChangeCallbacks, unsubscribes, viewer, gesture, tasks>>

GoOnline ==
    /\ ~online
    /\ online' = TRUE
    /\ UNCHANGED <<manager, serverVersion, controller, cachesInWindow, caches, state,
                   calls, cacheState, doc, fetches, stateChangeCallbacks, unsubscribes, viewer, gesture, tasks>>

\* the server publishes new bodies
ServerUpdate ==
    /\ serverVersion < MaxVersion
    /\ serverVersion' = serverVersion + 1
    /\ UNCHANGED <<manager, online, controller, cachesInWindow, caches, state, calls,
                   cacheState, doc, fetches, stateChangeCallbacks, unsubscribes, viewer, gesture, tasks>>

\* --------------------------------------------------- viewer.ts FlipbookViewer
\* everything but the viewer and the gesture handler
PageVars == <<manager, online, serverVersion, controller, cachesInWindow, caches, state,
              calls, cacheState, doc, fetches, stateChangeCallbacks, unsubscribes, tasks>>

\* the manifest the server holds for a catalog: "a" has OrderPages pages and one
\* more with every new version, the other catalogs one page
ServerManifest(bookId) ==
    BookManifest(bookId, IF bookId = "a" THEN OrderPages + serverVersion - 1 ELSE 1)

\* the fields of a new FlipbookViewer: manifest is <<>> for null, else <<m>>.
\* thumbnails is the number of thumbnail elements in the grid, loads the loadBook
\* invocations between the guard and the finally, ignored whether the last
\* loadBook call returned at the guard, error whether showError was called
InitViewer ==
    [isLoading |-> FALSE, manifest |-> <<>>, currentPageIndex |-> 0, thumbnails |-> 0,
     loads |-> <<>>, ignored |-> FALSE, error |-> FALSE]

\* a loadBook that never returns at the guard
LoadGuardNever(v) == FALSE
\* if (this.isLoading) return
LoadGuard(v) == v.isLoading

\* loadBook(bookId) up to the first await
LoadBookViewer(v, bookId) ==
    IF LoadGuard(v) THEN [v EXCEPT !.ignored = TRUE]
    ELSE [v EXCEPT !.isLoading = TRUE, !.ignored = FALSE, !.error = FALSE,
                   !.loads = Append(@, [bookId |-> bookId, pc |-> "fetch"])]

LoadBook(bookId) ==
    /\ Len(viewer.loads) < MaxLoads
    /\ viewer' = LoadBookViewer(viewer, bookId)
    /\ UNCHANGED <<gesture>>
    /\ UNCHANGED PageVars

\* the sequence without its k-th element
RemoveAt(seq, k) == SubSeq(seq, 1, k - 1) \o SubSeq(seq, k + 1, Len(seq))

\* catch { showError } finally { this.isLoading = false }
LoadFailed(v, k) ==
    [v EXCEPT !.error = TRUE, !.isLoading = FALSE, !.loads = RemoveAt(@, k)]

\* renderThumbnails(): one thumbnail with a click handler per page of the manifest
RenderThumbnails(v) ==
    IF v.manifest = <<>> THEN v ELSE [v EXCEPT !.thumbnails = Len(v.manifest[1].pages)]

\* this.manifest = await response.json(); currentPageIndex = 0; render; finally
LoadSucceeded(v, k) ==
    RenderThumbnails([v EXCEPT !.manifest = <<ServerManifest(v.loads[k].bookId)>>,
                               !.currentPageIndex = 0,
                               !.isLoading = FALSE,
                               !.loads = RemoveAt(@, k)])

\* await fetch(manifestUrl) settles: a response that is not OK throws
LoadFetch(k) ==
    /\ k \in 1..Len(viewer.loads)
    /\ viewer.loads[k].pc = "fetch"
    /\ \E r \in FetchOutcomes :
          viewer' = IF r = "ok" THEN [viewer EXCEPT !.loads[k].pc = "json"]
                    ELSE LoadFailed(viewer, k)
    /\ UNCHANGED <<gesture>>
    /\ UNCHANGED PageVars

\* await response.json() settles: it rejects for a body that is not JSON
LoadJson(k) ==
    /\ k \in 1..Len(viewer.loads)
    /\ viewer.loads[k].pc = "json"
    /\ \E parsed \in BOOLEAN :
          viewer' = IF parsed THEN LoadSucceeded(viewer, k) ELSE LoadFailed(viewer, k)
    /\ UNCHANGED <<gesture>>
    /\ UNCHANGED PageVars

\* nextPage()
NextPageViewer(v) ==
    IF v.manifest = <<>> THEN v
    ELSE IF v.currentPageIndex < Len(v.manifest[1].pages) - 1
         THEN RenderThumbnails([v EXCEPT !.currentPageIndex = @ + 1])
         ELSE v

\* a previousPage without its test
PreviousPageViewerUnchecked(v) == RenderThumbnails([v EXCEPT !.currentPageIndex = @ - 1])
\* previousPage()
PreviousPageViewer(v) ==
    IF v.currentPageIndex > 0
    THEN RenderThumbnails([v EXCEPT !.currentPageIndex = @ - 1])
    ELSE v

\* btnNext click
NextPage ==
    /\ viewer' = NextPageViewer(viewer)
    /\ UNCHANGED <<gesture>>
    /\ UNCHANGED PageVars

\* btnPrev click
PreviousPage ==
    /\ viewer' = PreviousPageViewer(viewer)
    /\ UNCHANGED <<gesture>>
    /\ UNCHANGED PageVars

\* click on the thumbnail that renderThumbnails made for `index`
ThumbnailClick(index) ==
    /\ index \in 0..(viewer.thumbnails - 1)
    /\ viewer' = RenderThumbnails([viewer EXCEPT !.currentPageIndex = index])
    /\ UNCHANGED <<gesture>>
    /\ UNCHANGED PageVars

\* --------------------------------------------------- gestures.ts GestureHandler
minSwipeDistance == 50
maxSwipeTime == 500
doubleTapThreshold == 300
doubleTapDistance == 50

\* clientX and clientY of the touches, and the milliseconds between two events
TouchXs == {100, 200}
TouchYs == {100, 150}
Ticks == {100, 200, 500}

Abs(n) == IF n < 0 THEN -n ELSE n

\* the fields of a new GestureHandler, with the clock (Date.now()), whether a
\* finger is down, the place and time of the last touchend, and the touchend
\* events handled so far: the callbacks each one called, in order, and whether it
\* came quickly after the touchend before it and close to it
InitGesture ==
    [startX |-> 0, startY |-> 0, startTime |-> 0,
     lastTapTime |-> 0, lastTapX |-> 0, lastTapY |-> 0,
     now |-> ClockStart, down |-> FALSE,
     prev |-> [x |-> 0, y |-> 0, time |-> 0], ends |-> <<>>]

\* handleTouchStart(event) at time now
HandleTouchStart(g, x, y, now) ==
    [g EXCEPT !.startX = x, !.startY = y, !.startTime = now, !.now = now, !.down = TRUE]

\* the swipe test of handleTouchEnd
IsSwipe(g, endX, endY, endTime) ==
    /\ Abs(endX - g.startX) > minSwipeDistance
    /\ Abs(endY - g.startY) < minSwipeDistance
    /\ endTime - g.startTime < maxSwipeTime

\* the double-tap test of handleTouchEnd: Math.sqrt(dx^2 + dy^2) < doubleTapDistance
\* compared on the squares
IsDoubleTap(g, endX, endY, now) ==
    /\ now - g.lastTapTime < doubleTapThreshold
    /\ (endX - g.lastTapX) * (endX - g.lastTapX) + (endY - g.lastTapY) * (endY - g.lastTapY)
          < doubleTapDistance * doubleTapDistance

\* a swipe branch that falls through to the tap test
SwipeFallsThrough == FALSE
\* the `return` that ends the swipe branch
SwipeReturns == TRUE

\* handleTouchEnd(event) at time now: the callbacks called, and the fields assigned
HandleTouchEnd(g, endX, endY, now) ==
    LET swipe    == IsSwipe(g, endX, endY, now)
        swiped   == IF ~swipe THEN <<>>
                    ELSE IF endX - g.startX > 0 THEN <<"onSwipeRight">> ELSE <<"onSwipeLeft">>
        returned == swipe /\ SwipeReturns
        double   == IsDoubleTap(g, endX, endY, now)
        called   == IF returned THEN swiped
                    ELSE swiped \o (IF double THEN <<"onDoubleTap">> ELSE <<"onTap">>)
        quick    == /\ now - g.prev.time < doubleTapThreshold
                    /\ (endX - g.prev.x) * (endX - g.prev.x)
                         + (endY - g.prev.y) * (endY - g.prev.y)
                           < doubleTapDistance * doubleTapDistance
        seen     == [g EXCEPT !.now = now, !.down = FALSE,
                              !.prev = [x |-> endX, y |-> endY, time |-> now],
                              !.ends = Append(@, [called |-> called, quick |-> quick])]
    IN  IF returned THEN seen
        ELSE IF double
             THEN [seen EXCEPT !.lastTapTime = 0]
             ELSE [seen EXCEPT !.lastTapTime = now, !.lastTapX = endX, !.lastTapY = endY]

\* touchstart on the page container
TouchStart ==
    /\ Len(gesture.ends) < MaxTouchEnds
    /\ ~gesture.down
    /\ \E x \in TouchXs, y \in TouchYs, t \in Ticks :
          /\ gesture.now + t <= ClockStart + ClockSpan
          /\ gesture' = HandleTouchStart(gesture, x, y, gesture.now + t)
    /\ UNCHANGED <<viewer>>
    /\ UNCHANGED PageVars

\* the viewer after the callbacks of a touchend: onSwipeLeft is nextPage,
\* onSwipeRight is previousPage, onTap and onDoubleTap are not set
RECURSIVE AfterCallbacks(_, _)
AfterCallbacks(v, called) ==
    IF called = <<>> THEN v
    ELSE AfterCallbacks(
            CASE Head(called) = "onSwipeLeft" -> NextPageViewer(v)
              [] Head(called) = "onSwipeRight" -> PreviousPageViewer(v)
              [] OTHER -> v,
            Tail(called))

\* touchend on the page container
TouchEnd ==
    /\ Len(gesture.ends) < MaxTouchEnds
    /\ gesture.down
    /\ \E x \in TouchXs, y \in TouchYs, t \in Ticks :
          /\ gesture.now + t <= ClockStart + ClockSpan
          /\ gesture' = HandleTouchEnd(gesture, x, y, gesture.now + t)
          /\ viewer' = AfterCallbacks(viewer, gesture'.ends[Len(gesture'.ends)].called)
    /\ UNCHANGED PageVars

\* ------------------------------------------------------- specifications
StaleEntry == Entry(ShellUrl, 200, 0)

\* the guide's constructor has called checkOfflineStatus, whose caches.keys() is
\* pending; cache.ts has no constructor; no clearCache is running
InitTasks ==
    [check |-> IF manager = "guide" THEN "pending" ELSE "none",
     clear |-> "idle", names |-> {}]

\* cacheNames.some(name => name.startsWith(CACHE_PREFIX))
HasOfflineCache(names) == \E n \in names : StartsWith(n, CACHE_PREFIX)

\* checkOfflineStatus() after its await: caches.keys() resolved or rejected
CheckOfflineStatus ==
    /\ manager = "guide"
    /\ tasks.check = "pending"
    /\ tasks' = [tasks EXCEPT !.check = "done"]
    /\ \E resolved \in BOOLEAN :
          IF cachesInWindow /\ resolved /\ HasOfflineCache(CachesKeys(caches))
          THEN UpdateState([isOfflineReady |-> TRUE])
          ELSE cacheState' = cacheState
    /\ UNCHANGED <<manager, online, serverVersion, controller, cachesInWindow, caches, state,
                   calls, doc, fetches, stateChangeCallbacks, unsubscribes, viewer, gesture>>

\* a clearCache that leaves isOfflineReady as it is
ClearedStateKeepsReady == [isCaching |-> FALSE, cacheProgress |-> 0]
\* the state clearCache sets
ClearedState == [isOfflineReady |-> FALSE, isCaching |-> FALSE, cacheProgress |-> 0]

\* clearCache() up to its first await: it returns at once without 'caches' in window
ClearCache ==
    /\ manager = "cache.ts"
    /\ cachesInWindow
    /\ tasks.clear = "idle"
    /\ tasks' = [tasks EXCEPT !.clear = "keys"]
    /\ UNCHANGED <<manager, online, serverVersion, controller, cachesInWindow, caches, state,
                   calls, cacheState, doc, fetches, stateChangeCallbacks, unsubscribes,
                   viewer, gesture>>

\* await caches.keys() settles: a rejection is caught and logged
ClearCacheKeys ==
    /\ tasks.clear = "keys"
    /\ \E resolved \in BOOLEAN :
          tasks' = IF resolved
                   THEN [tasks EXCEPT !.clear = "delete", !.names = CachesKeys(caches)]
                   ELSE [tasks EXCEPT !.clear = "idle"]
    /\ UNCHANGED <<manager, online, serverVersion, controller, cachesInWindow, caches, state,
                   calls, cacheState, doc, fetches, stateChangeCallbacks, unsubscribes,
                   viewer, gesture>>

\* await Promise.all(cacheNames.map(name => caches.delete(name))) resolves and
\* setState follows
ClearCacheDelete ==
    /\ tasks.clear = "delete"
    /\ tasks' = [tasks EXCEPT !.clear = "idle", !.names = {}]
    /\ caches' = [n \in (DOMAIN caches) \ tasks.names |-> caches[n]]
    /\ SetState(ClearedState)
    /\ UNCHANGED <<manager, online, serverVersion, controller, cachesInWindow, calls,
                   cacheState, doc, fetches, stateChangeCallbacks, unsubscribes,
                   viewer, gesture>>

InitCaches ==
    {[n \in {} |-> {}], [n \in {STALE_CACHE} |-> {StaleEntry}]}

Init ==
    /\ manager \in {"cache.ts", "guide"}
    /\ online = TRUE
    /\ serverVersion = 1
    /\ controller \in BOOLEAN
    /\ cachesInWindow \in BOOLEAN
    /\ caches \in InitCaches
    /\ state = InitialState
    /\ calls = [c \in 1..MaxCalls |-> IdleCall]
    /\ cacheState = InitialState
    /\ doc = IdleDoc
    /\ fetches = IdleFetch
    /\ stateChangeCallbacks = <<>>
    /\ unsubscribes = {}
    /\ viewer = InitViewer
    /\ gesture = InitGesture
    /\ tasks = InitTasks

\* cacheBook reads manifest.id and manifest.pages only
CallManifests == {BookManifest("a", n) : n \in PageCounts}

InitDownload ==
    /\ Init
    /\ cachesInWindow
    /\ STALE_CACHE \in DOMAIN caches

\* the fetch listener, one event at a time, with the network and the server changing
NextFetch ==
    \/ \E request \in Requests : FetchEvent(request)
    \/ FetchMatch
    \/ FetchNet
    \/ FetchFallback
    \/ FetchPut
    \/ GoOffline
    \/ GoOnline
    \/ ServerUpdate

InitFetch ==
    /\ Init
    /\ manager = "cache.ts"
    /\ cachesInWindow
    /\ controller

SpecFetch == InitFetch /\ [][NextFetch]_vars

\* no download is in progress
NoDownloadInFlight == (\A c \in 1..MaxCalls : Free(calls[c])) /\ doc.pc = "idle"

\* no fetch event is being handled
NoFetchInFlight == fetches.pc \in {"idle", "done"}

\* the requests of the viewer (loadBook, renderPage, renderThumbnails) for catalog a
ViewerRequests ==
    {[method |-> "GET", protocol |-> <<"http", "s:">>, pathname |-> p] :
        p \in {ViewerManifestUrl("a")}
               \cup {ViewerPageUrl(BookManifest("a", MaxPages), i) : i \in 1..MaxPages}
               \cup {ViewerThumbUrl(BookManifest("a", MaxPages), i) : i \in 1..MaxPages}}

\* viewer.ts downloadForOffline: cacheBook(this.manifest)
DownloadForOffline(manifest) ==
    /\ NoFetchInFlight
    /\ CacheBookAlone(manifest)

\* the documented download, started while no fetch event is being handled
DocDownloadForOffline(manifest) ==
    /\ NoFetchInFlight
    /\ DownloadBookForOffline(manifest)

\* a request of the viewer reaches the fetch listener
ViewerFetch(request) ==
    /\ NoDownloadInFlight
    /\ FetchEvent(request)

\* downloads and the viewer's requests, one at a time, with the network going away
NextOffline ==
    \/ DownloadForOffline(BookManifest("a", MaxPages))
    \/ \E c \in 1..MaxCalls : PortOnMessage(c)
    \/ \E c \in 1..MaxCalls : Timeout(c)
    \/ \E c \in 1..MaxCalls : SwOnMessage(c)
    \/ \E c \in 1..MaxCalls : SwOpen(c)
    \/ \E c \in 1..MaxCalls : SwManifest(c)
    \/ \E c \in 1..MaxCalls : SwFetchPage(c)
    \/ \E c \in 1..MaxCalls : SwPutPage(c)
    \/ \E c \in 1..MaxCalls : SwPutThumb(c)
    \/ \E c \in 1..MaxCalls : SwComplete(c)
    \/ DocDownloadForOffline(BookManifest("a", MaxPages))
    \/ DocOpen
    \/ DocManifest
    \/ DocPage
    \/ DocThumb
    \/ DocCover
    \/ \E b \in BookIds : DeleteOfflineBook(b)
    \/ \E request \in ViewerRequests : ViewerFetch(request)
    \/ FetchMatch
    \/ FetchNet
    \/ FetchFallback
    \/ FetchPut
    \/ GoOffline
    \/ GoOnline

InitOffline ==
    /\ Init
    /\ cachesInWindow
    /\ controller
    /\ STALE_CACHE \notin DOMAIN caches

SpecOffline == InitOffline /\ [][NextOffline]_vars

\* one download at a time, by either CacheManager: cache.ts cacheBook with sw.js
\* cacheBook, or the documented downloadBookForOffline
NextDownload ==
    \/ \E m \in CallManifests : CacheBookAlone(m)
    \/ \E c \in 1..MaxCalls : PortOnMessage(c)
    \/ \E c \in 1..MaxCalls : Timeout(c)
    \/ \E c \in 1..MaxCalls : SwOnMessage(c)
    \/ \E c \in 1..MaxCalls : SwOpen(c)
    \/ \E c \in 1..MaxCalls : SwManifest(c)
    \/ \E c \in 1..MaxCalls : SwFetchPage(c)
    \/ \E c \in 1..MaxCalls : SwPutPage(c)
    \/ \E c \in 1..MaxCalls : SwPutThumb(c)
    \/ \E c \in 1..MaxCalls : SwComplete(c)
    \/ \E m \in Manifests : DownloadBookForOffline(m)
    \/ DocOpen
    \/ DocManifest
    \/ DocPage
    \/ DocThumb
    \/ DocCover
    \/ \E b \in BookIds : DeleteOfflineBook(b)
    \/ Activate

SpecDownload == InitDownload /\ [][NextDownload]_vars

\* registrations and the calls of the functions returned for them
\* one step of the worker's run of cacheBook for the invocation of slot c
SwStep(c) ==
    \/ SwOnMessage(c)
    \/ SwOpen(c)
    \/ SwManifest(c)
    \/ SwFetchPage(c)
    \/ SwPutPage(c)
    \/ SwPutThumb(c)
    \/ SwComplete(c)

\* cache.ts cacheBook and the worker's runs, the worker controlling the page
InitWorker == InitDownload /\ manager = "cache.ts" /\ controller

NextWorker ==
    \/ \E m \in CallManifests : CacheBookAlone(m)
    \/ \E c \in 1..MaxCalls : PortOnMessage(c)
    \/ \E c \in 1..MaxCalls : Timeout(c)
    \/ \E c \in 1..MaxCalls : SwStep(c)

\* every await of the worker's run settles: the message event is delivered,
\* caches.open, fetch and cache.put resolve or reject
SpecWorkerLive ==
    InitWorker /\ [][NextWorker]_vars /\ \A c \in 1..MaxCalls : WF_vars(SwStep(c))

\* catalog ids of the listing: the ids of BookIds and an id that is the text of
\* CACHE_PREFIX itself
ListedIds == BookIds \cup {CACHE_PREFIX[1]}

\* the requests that fill the worker's runtime and asset stores
ListRequests ==
    {[method |-> "GET", protocol |-> <<"http", "s:">>, pathname |-> p] :
        p \in {ViewerManifestUrl("a"), ShellUrl}}

\* the documented manager creating, listing and deleting catalog stores next to
\* the stores of the worker
NextList ==
    \/ \E id \in ListedIds :
          DownloadBookForOffline([BookManifest(id, 0) EXCEPT !.coverImage = NoCover])
    \/ DocOpen
    \/ DocManifest
    \/ DocCover
    \/ \E id \in ListedIds : DeleteOfflineBook(id)
    \/ \E request \in ListRequests : FetchEvent(request)
    \/ FetchMatch
    \/ FetchNet
    \/ FetchFallback
    \/ FetchPut
    \/ Activate

InitList == Init /\ manager = "guide"

SpecList == InitList /\ [][NextList]_vars

\* one download after the other of a catalog of several pages, by either manager
InitOrder == InitDownload /\ controller

NextOrder ==
    \/ CacheBookAlone(BookManifest("a", OrderPages))
    \/ \E c \in 1..MaxCalls : SwStep(c)
    \/ DownloadBookForOffline(BookManifest("a", OrderPages))
    \/ DocOpen
    \/ DocManifest
    \/ DocPage
    \/ DocThumb
    \/ DocCover

SpecOrder == InitOrder /\ [][NextOrder]_vars

\* the viewer: loading catalogs, navigating by buttons, thumbnails and touches
NextViewer ==
    \/ \E bookId \in BookIds : LoadBook(bookId)
    \/ \E k \in 1..MaxLoads : LoadFetch(k)
    \/ \E k \in 1..MaxLoads : LoadJson(k)
    \/ NextPage
    \/ PreviousPage
    \/ \E index \in 0..(OrderPages + MaxVersion - 2) : ThumbnailClick(index)
    \/ ServerUpdate

InitViewerSpec == Init /\ manager = "cache.ts" /\ controller /\ cachesInWindow
                       /\ STALE_CACHE \notin DOMAIN caches

SpecViewer == InitViewerSpec /\ [][NextViewer]_vars

\* touches on the page container of a viewer that loads catalog "a"
NextGesture ==
    \/ TouchStart
    \/ TouchEnd
    \/ LoadBook("a")
    \/ \E k \in 1..MaxLoads : LoadFetch(k)
    \/ \E k \in 1..MaxLoads : LoadJson(k)

SpecGesture == InitViewerSpec /\ [][NextGesture]_vars

\* the worker's two writers of the stores, one after the other: the fetch handler
\* answering requests of the page, and runs of cacheBook
NextStore ==
    \/ \E request \in Requests : ViewerFetch(request)
    \/ FetchMatch
    \/ FetchNet
    \/ FetchFallback
    \/ FetchPut
    \/ \E m \in CallManifests : NoFetchInFlight /\ CacheBookAlone(m)
    \/ \E c \in 1..MaxCalls : SwStep(c)

SpecStore == InitFetch /\ [][NextStore]_vars

\* two invocations of cacheBook that may be in flight at the same time, the
\* second for a catalog without pages
NextBoth ==
    \/ \E m \in CallManifests : calls[1] = IdleCall /\ CacheBook(1, m)
    \/ calls[2] = IdleCall /\ CacheBook(2, BookManifest("b", 0))
    \/ \E c \in 1..MaxCalls : PortOnMessage(c)
    \/ \E c \in 1..MaxCalls : Timeout(c)
    \/ \E c \in 1..MaxCalls : SwStep(c)

SpecBoth == InitWorker /\ [][NextBoth]_vars

\* a catalog store left by an earlier visit
EarlierStore == [n \in {CatalogStore("b")} |-> {Entry(DocManifestUrl(BookManifest("b", 0)), 200, 1)}]

\* both managers with what sets isOfflineReady: downloads, the constructor's
\* check, deletion and clearing
InitReady ==
    /\ manager \in {"cache.ts", "guide"}
    /\ online = TRUE
    /\ serverVersion = 1
    /\ controller = TRUE
    /\ cachesInWindow = TRUE
    /\ caches \in InitCaches \cup {EarlierStore}
    /\ state = InitialState
    /\ calls = [c \in 1..MaxCalls |-> IdleCall]
    /\ cacheState = InitialState
    /\ doc = IdleDoc
    /\ fetches = IdleFetch
    /\ stateChangeCallbacks = <<>>
    /\ unsubscribes = {}
    /\ viewer = InitViewer
    /\ gesture = InitGesture
    /\ tasks = InitTasks

NextReady ==
    \/ calls[1] = IdleCall /\ CacheBookAlone(BookManifest("a", MaxPages))
    \/ \E c \in 1..MaxCalls : PortOnMessage(c)
    \/ \E c \in 1..MaxCalls : Timeout(c)
    \/ \E c \in 1..MaxCalls : SwStep(c)
    \/ DownloadBookForOffline(BookManifest("a", MaxPages))
    \/ DocOpen
    \/ DocManifest
    \/ DocPage
    \/ DocThumb
    \/ DocCover
    \/ \E b \in BookIds : DeleteOfflineBook(b)
    \/ CheckOfflineStatus
    \/ ClearCache
    \/ ClearCacheKeys
    \/ ClearCacheDelete

SpecReady == InitReady /\ [][NextReady]_vars

NextSubscribe ==
    \/ \E callback \in Callbacks : OnStateChange(callback)
    \/ \E u \in unsubscribes : Unsubscribe(u)

SpecSubscribe == Init /\ [][NextSubscribe]_vars

\* downloads of both managers while the page registers and unregisters callbacks
NextNotify ==
    \/ NextSubscribe
    \/ CacheBookAlone(BookManifest("a", MaxPages))
    \/ \E c \in 1..MaxCalls : PortOnMessage(c)
    \/ \E c \in 1..MaxCalls : SwOnMessage(c)
    \/ \E c \in 1..MaxCalls : SwOpen(c)
    \/ \E c \in 1..MaxCalls : SwManifest(c)
    \/ \E c \in 1..MaxCalls : SwFetchPage(c)
    \/ \E c \in 1..MaxCalls : SwPutPage(c)
    \/ \E c \in 1..MaxCalls : SwPutThumb(c)
    \/ \E c \in 1..MaxCalls : SwComplete(c)
    \/ DownloadBookForOffline([BookManifest("a", MaxPages) EXCEPT !.coverImage = NoCover])
    \/ DocOpen
    \/ DocManifest
    \/ DocPage
    \/ DocThumb
    \/ DocCover
    \/ DeleteOfflineBook("a")

InitNotify == InitDownload /\ controller

SpecNotify == InitNotify /\ [][NextNotify]_vars

\* ------------------------------------------------------------------ claims
ReadyState == [isOfflineReady |-> TRUE, isCaching |-> FALSE, cacheProgress |-> 100]

\* the worker's run of slot c went through its whole page loop
LoopCompleted(call) == call.pc = "done" /\ call.ended = "normal"

\* the documented download went through its whole page loop
DocCompleted == doc.op = "download" /\ doc.pc = "idle" /\ doc.outcome = "completed"

C2_CachingCleared ==
    ((\A c \in 1..MaxCalls : Free(calls[c])) /\ doc.pc = "idle")
       => (~state.isCaching /\ ~cacheState.isCaching)

AllUrlsBut(urls, url) == urls \ {url}

\* the URLs sw.js cacheBook computes for a manifest
SwCatalogUrls(m) ==
    {SwManifestUrl(m.id)}
    \cup {SwPageUrl(m.id, m.pages[i]) : i \in 1..Len(m.pages)}
    \cup {SwThumbUrl(m.id, m.pages[i]) : i \in 1..Len(m.pages)}

\* the URLs the documented download computes for a manifest
DocCatalogUrls(m) ==
    {DocManifestUrl(m)}
    \cup {DocPageUrl(m, i) : i \in 1..Len(m.pages)}
    \cup {DocThumbUrl(m, i) : i \in 1..Len(m.pages)}
    \cup (IF m.coverImage # NoCover THEN {DocCoverUrl(m)} ELSE {})

\* C3: when exactly one page's thumbnail fails and every other item succeeds, the
\* download still ends offline-ready and the store holds every item of the catalog
\* except that thumbnail (so the full image of that page is stored).
C3_OneThumbnailFails ==
    /\ \A c \in 1..MaxCalls : \A j \in 1..NPages(calls[c]) :
          (LoopCompleted(calls[c]) /\ calls[c].promise = "resolved"
             /\ calls[c].failed = {ThumbKey(j)})
          => /\ state.isOfflineReady
             /\ AllUrlsBut(SwCatalogUrls(calls[c].manifest),
                           SwThumbUrl(calls[c].manifest.id, calls[c].manifest.pages[j]))
                   \subseteq StoredUrls(caches, RUNTIME_CACHE)
    /\ \A j \in 1..Len(doc.manifest.pages) :
          (DocCompleted /\ doc.failed = {ThumbKey(j)})
          => /\ cacheState.isOfflineReady
             /\ AllUrlsBut(DocCatalogUrls(doc.manifest), DocThumbUrl(doc.manifest, j))
                   \subseteq StoredUrls(caches, CatalogStore(doc.manifest.id))

\* C4: when the download procedure as a whole fails (the store cannot be opened),
\* isCaching is set to false, isOfflineReady keeps its value, and the caller's
\* promise is rejected.
C4_FatalFailure ==
    [][/\ \A c \in 1..MaxCalls :
            (calls[c].promise = "pending" /\ calls'[c].promise = "rejected"
               /\ calls'[c].reason = "failed")
            => (state'.isCaching = FALSE /\ state'.isOfflineReady = state.isOfflineReady)
       /\ (doc.pc \in {"open", "manifest"} /\ doc'.outcome = "failed")
            => (cacheState'.isCaching = FALSE
                /\ cacheState'.isOfflineReady = cacheState.isOfflineReady)]_vars

\* C5: with the capability unavailable the download is a no-op that does not
\* reject: no state change, no store written, no message sent.
C5_UnavailableIsNoOp ==
    /\ \A c \in 1..MaxCalls :
          calls[c].reason = "unavailable"
             => (calls[c].promise # "rejected" /\ calls[c].pc = "none"
                 /\ calls[c].inbox = <<>>)
    /\ (doc.op = "download" /\ doc.outcome = "unavailable") => doc.promise = "resolved"

\* C6: every per-catalog store that exists before an activate event still exists,
\* with the same contents, after it.
C6_ActivateKeepsCatalogStores ==
    [][Activate
         => \A n \in DOMAIN caches :
               StartsWith(n, CACHE_PREFIX)
                  => (n \in DOMAIN caches' /\ caches'[n] = caches[n])]_vars

\* C7: after deleteOfflineBook(id), getOfflineBookIds() does not contain id and
\* isBookCached(id) is false, whatever downloads and manifest fetches came before.
C7_DeletedBookIsGone ==
    [][\A id \in BookIds :
          (cachesInWindow /\ DeleteOfflineBook(id))
             => (<<id>> \notin GetOfflineBookIds' /\ ~IsBookCached(id)')]_vars

\* the requests the viewer issues for a catalog
ViewerUrls(m) ==
    {ViewerManifestUrl(m.id)}
    \cup {ViewerPageUrl(m, i) : i \in 1..Len(m.pages)}
    \cup {ViewerThumbUrl(m, i) : i \in 1..Len(m.pages)}

\* C8: once a catalog was downloaded with every item fetched and stored, a request
\* of the viewer for that catalog made while offline is answered from the cache,
\* never with a 503.
C8_DownloadedCatalogServedOffline ==
    \A c \in 1..MaxCalls :
       (/\ LoopCompleted(calls[c]) /\ calls[c].promise = "resolved"
        /\ calls[c].failed = {}
        /\ ~online
        /\ fetches.pc = "done"
        /\ fetches.net \in {"none", "rejected"}
        /\ fetches.request.method = "GET"
        /\ fetches.request.pathname \in ViewerUrls(calls[c].manifest))
       => (fetches.response.kind = "cache" /\ fetches.response.status # 503)

\* C9: for a request whose method is not GET the fetch listener neither calls
\* respondWith nor attempts a cache write, on any path.
C9_NonGetPassesThrough ==
    (fetches.pc # "idle" /\ fetches.request.method # "GET")
       => (~fetches.respondWith /\ fetches.put.status = "none")

\* the strategy the priority order of the claim selects for a path
ManifestPath(path) == Includes(path, ManifestMarker)
BooksPath(path) == Includes(path, BooksMarker)

\* C10: every intercepted http(s) request is routed to exactly one strategy:
\* network-first when the path contains /manifest.json, otherwise cache-first when
\* it contains /books/, otherwise stale-while-revalidate; the strategy of an event
\* never changes while it is handled.
C10_RoutingPriority ==
    (fetches.pc # "idle" /\ StartsWith(fetches.request.protocol, <<"http">>))
       => /\ fetches.respondWith
          /\ fetches.strategy = "network-first" <=> ManifestPath(fetches.request.pathname)
          /\ fetches.strategy = "cache-first"
                <=> (~ManifestPath(fetches.request.pathname)
                     /\ BooksPath(fetches.request.pathname))
          /\ fetches.strategy = "stale-while-revalidate"
                <=> (~ManifestPath(fetches.request.pathname)
                     /\ ~BooksPath(fetches.request.pathname))

\* C10 witness: a manifest.json under /books/ was answered by network-first
C10_Witness ==
    /\ fetches.pc = "done"
    /\ fetches.request.pathname = ViewerManifestUrl("a")
    /\ fetches.strategy = "network-first"
    /\ fetches.response.kind = "network"

\* the registrations without the one the k-th onStateChange call created
WithoutRegistration(registrations, k) == SelectSeq(registrations, LAMBDA r : r.id # k)

\* C20: a call of the unsubscribe function returned by an onStateChange call removes
\* the registration that call created, if it is still there, and no other one;
\* registrations of the same callback function made by other calls stay, and a
\* second call of the same unsubscribe changes nothing.
C20_UnsubscribeRemovesOne ==
    [][\A u \in unsubscribes :
          Unsubscribe(u)
             => stateChangeCallbacks' = WithoutRegistration(stateChangeCallbacks, u.id)]_vars

\* the event being handled is a GET routed to the given strategy
Handling(strategy) ==
    /\ fetches.pc # "idle"
    /\ fetches.strategy = strategy
    /\ fetches.request.method = "GET"

\* the entry of the request's URL in a store, as the set cache.match would choose from
StoredFor(cs, store, request) == CacheMatch(cs, store, request.pathname)

\* C11 as stated: network-first, once the network fetch of a manifest URL
\* succeeded and the event is over, the caller has the live network response and
\* the runtime store holds that body for the URL.
C11_NetworkFirstUpdatesStore ==
    (Handling("network-first") /\ fetches.pc = "done" /\ fetches.net = "ok")
       => /\ fetches.response.kind = "network" /\ fetches.response.status = 200
          /\ StoredFor(caches, RUNTIME_CACHE, fetches.request)
                = {Entry(fetches.request.pathname, 200, fetches.response.body)}

\* C11 amended: when the network fetch succeeds the caller gets the live network
\* response whatever the stores hold, and a write of that body to the runtime store
\* is started; the store holds the new body once that write has succeeded (a
\* failed write is not reported and leaves the store as it was).
C11_NetworkFirstLive ==
    [][/\ (fetches.pc = "net" /\ fetches.strategy = "network-first"
             /\ fetches'.net = "ok")
          => /\ fetches'.response = NetworkResponse(200, serverVersion)
             /\ fetches'.put = [status |-> "pending", store |-> RUNTIME_CACHE,
                                resp |-> 200, body |-> serverVersion,
                                rejection |-> "none"]
       /\ (fetches'.pc = "done" /\ fetches'.strategy = "network-first"
             /\ fetches'.net = "ok" /\ fetches'.put.status = "done")
          => StoredFor(caches', RUNTIME_CACHE, fetches'.request)
                = {Entry(fetches'.request.pathname, 200, fetches'.response.body)}]_vars

\* C11 witness: the live body 2 was returned while the runtime store still holds
\* the stale body 1 of the same URL, the write of the new body being under way
C11_Witness ==
    /\ Handling("network-first") /\ fetches.pc = "put"
    /\ fetches.response = NetworkResponse(200, 2)
    /\ StoredFor(caches, RUNTIME_CACHE, fetches.request)
          = {Entry(fetches.request.pathname, 200, 1)}

\* C12: network-first, when the network fetch rejects: the cached copy of the URL
\* when one exists, else the 503 'Offline - manifest not available'; the response
\* never rejects.
C12_NetworkFirstFallback ==
    /\ (Handling("network-first") /\ fetches.pc = "done" /\ fetches.net = "rejected")
          => LET cached == CachesMatch(caches, fetches.request.pathname) IN
             IF cached # {}
             THEN fetches.response \in {CachedResponse(e) : e \in cached}
             ELSE fetches.response = SyntheticResponse("Offline - manifest not available")
    /\ fetches.strategy = "network-first" => fetches.response.kind # "rejected"

\* C12 witness: offline, a manifest request was answered with its cached copy
C12_Witness ==
    /\ Handling("network-first") /\ fetches.pc = "done" /\ fetches.net = "rejected"
    /\ ~online
    /\ fetches.response.kind = "cache"

\* C13: cache-first, when the URL is in the cache the lookup step ends the event
\* with the stored response, and no network fetch is issued for the request.
C13_CacheFirstHit ==
    [][(/\ Handling("cache-first") /\ fetches.pc = "match"
        /\ fetches' # fetches
        /\ CachesMatch(caches, fetches.request.pathname) # {})
          => /\ fetches'.pc = "done"
             /\ fetches'.response
                   \in {CachedResponse(e) : e \in CachesMatch(caches, fetches.request.pathname)}
             /\ fetches'.netCalls = 0
             /\ fetches'.net = "none"]_vars

\* C13 witness: a page image was answered from the cache with no network call
C13_Witness ==
    /\ Handling("cache-first") /\ fetches.pc = "done"
    /\ fetches.response.kind = "cache"
    /\ fetches.netCalls = 0

\* C14: cache-first, a request for a catalog asset whose network fetch rejects
\* (offline, nothing cached) resolves to the 503 'Offline - resource not
\* available'; the response never rejects.
C14_CacheFirstOffline ==
    /\ (fetches.strategy = "cache-first" /\ fetches.pc = "done"
          /\ fetches.net = "rejected")
          => fetches.response = SyntheticResponse("Offline - resource not available")
    /\ fetches.strategy = "cache-first" => fetches.response.kind # "rejected"

\* C14 witness: offline and uncached, a page image request ended with the 503
C14_Witness ==
    /\ Handling("cache-first") /\ fetches.pc = "done"
    /\ ~online
    /\ CachesMatch(caches, fetches.request.pathname) = {}
    /\ fetches.response.status = 503
    /\ fetches.response.text = "Offline - resource not available"

\* C15 as stated: stale-while-revalidate issues one network fetch whether or not
\* the lookup hit, and once that fetch succeeded and the event is over the asset
\* store holds its body.
C15_RevalidateStores ==
    /\ (Handling("stale-while-revalidate") /\ fetches.pc \in {"net", "put", "done"})
          => fetches.netCalls = 1
    /\ (Handling("stale-while-revalidate") /\ fetches.pc = "done" /\ fetches.net = "ok")
          => StoredFor(caches, ASSET_CACHE, fetches.request)
                = {Entry(fetches.request.pathname, 200, fetches.put.body)}

\* C15 amended: one network fetch is issued whether or not the lookup hit; on a
\* hit the cached response is the caller's response while the fetch is still in
\* flight and stays it; when the fetch succeeds a write of its body to the asset
\* store is started, and the store holds that body once the write has succeeded.
C15_RevalidateInBackground ==
    [][/\ (fetches'.pc \in {"net", "put", "done"} /\ fetches'.request.method = "GET"
             /\ fetches'.strategy = "stale-while-revalidate")
          => fetches'.netCalls = 1
       /\ (/\ Handling("stale-while-revalidate") /\ fetches.pc = "match"
           /\ fetches' # fetches
           /\ CachesMatch(caches, fetches.request.pathname) # {})
          => /\ fetches'.response
                   \in {CachedResponse(e) : e \in CachesMatch(caches, fetches.request.pathname)}
             /\ fetches'.net = "inflight"
       /\ (Handling("stale-while-revalidate") /\ fetches.pc \in {"net", "put"}
             /\ fetches.response.kind = "cache")
          => fetches'.response = fetches.response
       /\ (Handling("stale-while-revalidate") /\ fetches.pc = "net"
             /\ fetches'.net = "ok")
          => fetches'.put = [status |-> "pending", store |-> ASSET_CACHE,
                             resp |-> 200, body |-> serverVersion,
                             rejection |-> "none"]
       /\ (fetches'.pc = "done" /\ fetches'.strategy = "stale-while-revalidate"
             /\ fetches'.net = "ok" /\ fetches'.put.status = "done")
          => StoredFor(caches', ASSET_CACHE, fetches'.request)
                = {Entry(fetches'.request.pathname, 200, fetches'.put.body)}]_vars

\* C15 witness: the caller got the cached body 1 while the fetch brought body 2,
\* which the asset store now holds
C15_Witness ==
    /\ Handling("stale-while-revalidate") /\ fetches.pc = "done"
    /\ fetches.response.kind = "cache" /\ fetches.response.body = 1
    /\ fetches.put.status = "done"
    /\ StoredFor(caches, ASSET_CACHE, fetches.request)
          = {Entry(fetches.request.pathname, 200, 2)}

\* C16: stale-while-revalidate with no cached copy: no response before the network
\* fetch settles, then the network response, or a rejection when the fetch
\* rejected; never a synthetic 503.
C16_RevalidateMiss ==
    /\ fetches.strategy = "stale-while-revalidate" => fetches.response.kind # "synthetic"
    /\ (fetches.strategy = "stale-while-revalidate" /\ fetches.pc = "net"
          /\ fetches.response.kind # "cache")
          => (fetches.response = NoResponse /\ fetches.net = "inflight")
    /\ (fetches.strategy = "stale-while-revalidate" /\ fetches.pc \in {"put", "done"}
          /\ fetches.response.kind # "cache")
          => \/ fetches.net = "rejected" /\ fetches.response = RejectedResponse
             \/ fetches.net \in {"ok", "notok"} /\ fetches.response.kind = "network"

\* C16 witness: offline, a request for the shell with nothing cached ended rejected
C16_Witness ==
    /\ Handling("stale-while-revalidate") /\ fetches.pc = "done"
    /\ ~online
    /\ CachesMatch(caches, fetches.request.pathname) = {}
    /\ fetches.response = RejectedResponse

\* the total the claim C17 states for a manifest: two items per page, and one more
\* for a cover image
TotalWithCover(m) == 2 * Len(m.pages) + (IF m.coverImage # NoCover THEN 1 ELSE 0)

C18_OnePageScenario ==
    /\ (DocCompleted /\ doc.failed = {} /\ Len(doc.manifest.pages) = 1
          /\ doc.manifest.coverImage = NoCover)
          => /\ doc.adds = 3
             /\ doc.progress = <<0, 50, 100>>
             /\ cacheState = ReadyState
    /\ \A c \in 1..MaxCalls :
          (/\ LoopCompleted(calls[c]) /\ calls[c].failed = {}
           /\ NPages(calls[c]) = 1
           /\ Ended(calls[c]) /\ calls[c].promise = "resolved")
             => /\ calls[c].puts = 3
                /\ calls[c].progress = <<0, 50, 100>>
                /\ state = ReadyState

\* the store a download writes to
TargetStore ==
    IF doc' # doc THEN CatalogStore(doc'.manifest.id) ELSE RUNTIME_CACHE

\* C19: no step of a download (of either manager, for any catalog, whatever
\* fails) removes a URL from a store or touches a store other than the one named
\* after the catalog id (the runtime store for the worker's cacheBook): run twice
\* in succession, the download leaves a superset of the URLs of the first run.
C19_DownloadKeepsUrls ==
    [][(calls' # calls \/ (doc' # doc /\ doc'.op = "download"))
          => /\ \A n \in DOMAIN caches :
                   n \in DOMAIN caches' /\ StoredUrls(caches, n) \subseteq StoredUrls(caches', n)
             /\ \A n \in DOMAIN caches' :
                   n # TargetStore => (n \in DOMAIN caches /\ caches'[n] = caches[n])]_vars

\* C19 witness: a run whose page image failed has ended, and the store still
\* holds that page image from an earlier run
C19_Witness ==
    /\ DocCompleted
    /\ ImageKey(1) \in doc.failed
    /\ DocPageUrl(doc.manifest, 1) \in StoredUrls(caches, CatalogStore(doc.manifest.id))

\* C21: at every state transition each registered observer is called, and what
\* it is called with is a snapshot: whatever an observer assigns to the object
\* it was handed, the manager's state after the transition (what getState then
\* returns) and the value every observer finds are the state the transition set.
C21_ObserversGetSnapshots ==
    [][/\ \A c \in 1..MaxCalls :
            PortOnMessage(c) =>
               LET set == Merge(state, OnMessageState(Head(calls[c].inbox)))
                   run == ForEachCallback(stateChangeCallbacks, set)
               IN  /\ Len(run.handed) = Len(stateChangeCallbacks)
                   /\ \A k \in 1..Len(run.handed) : run.handed[k] = set
                   /\ state' = set
       /\ (DeleteOfflineBook("a") /\ cachesInWindow) =>
               LET set == Merge(cacheState, [isOfflineReady |-> FALSE])
                   run == ForEachCallback(stateChangeCallbacks, set)
               IN  /\ Len(run.handed) = Len(stateChangeCallbacks)
                   /\ \A k \in 1..Len(run.handed) : run.handed[k] = set
                   /\ cacheState' = set]_vars

\* the messages of a run hold CACHE_COMPLETE at most once and only in the last place
CompleteIsLast(sent) ==
    \A k \in 1..Len(sent) : sent[k].type = "CACHE_COMPLETE" => k = Len(sent)

ProgressMessages(call) == SelectSeq(call.sent, LAMBDA m : m.type = "CACHE_PROGRESS")

\* the page images and thumbnails a run has stored: those whose cache.put was
\* called and did not fail
ItemsStored(call) ==
    {e.item : e \in {call.log[k] : k \in 1..Len(call.log)}} \cap
    {item \in {ImageKey(i) : i \in 1..NPages(call)} \cup {ThumbKey(i) : i \in 1..NPages(call)} :
        /\ Attempt("put", item) \in {call.log[k] : k \in 1..Len(call.log)}
        /\ item \notin call.failed}

C24_TimeoutFailsClosed ==
    [][\A c \in 1..MaxCalls :
          /\ Timeout(c) =>
                IF calls[c].promise = "pending"
                THEN calls'[c].promise = "rejected" /\ calls'[c].reason = "timeout"
                ELSE calls'[c].promise = calls[c].promise /\ calls'[c].reason = calls[c].reason
          /\ (PortOnMessage(c) /\ Head(calls[c].inbox).type = "CACHE_COMPLETE") =>
                /\ calls[c].promise = "pending"
                /\ calls'[c].promise = IF Head(calls[c].inbox).success
                                       THEN "resolved" ELSE "rejected"
                /\ calls'[c].reason # "timeout"
          /\ (calls[c].promise \in {"resolved", "rejected"}
                /\ ~ \E m \in CallManifests : CacheBook(c, m)) =>
                calls'[c].promise = calls[c].promise /\ calls'[c].reason = calls[c].reason]_vars

\* C24 witness: the promise was rejected by the timer while the worker's run is
\* between the two puts of a page
C24_Witness ==
    \E c \in 1..MaxCalls :
       /\ calls[c].promise = "rejected"
       /\ calls[c].reason = "timeout"
       /\ calls[c].timer = "fired"
       /\ calls[c].pc = "putThumb"

\* the items of a catalog in the order of the enumeration
PageItems(n) == {ImageKey(i) : i \in 1..n} \cup {ThumbKey(i) : i \in 1..n}

\* the calls a run made, as a set
Attempts(log) == {log[k] : k \in 1..Len(log)}

\* C25: once the store is open, no failure of a single item (manifest, page image
\* or thumbnail) ends a download early: the download ends with normal
\* completion, and every page image and thumbnail was attempted, that is
\* fetched and, unless the item itself failed, stored.
C25_ItemFailureNeverAborts ==
    /\ \A c \in 1..MaxCalls :
          (calls[c].pc = "done" /\ calls[c].log # <<>>)
             => /\ calls[c].ended = "normal"
                /\ \A item \in PageItems(NPages(calls[c])) :
                      /\ Attempt("fetch", item) \in Attempts(calls[c].log)
                      /\ item \notin calls[c].failed
                            => Attempt("put", item) \in Attempts(calls[c].log)
    /\ (doc.op = "download" /\ doc.pc = "idle" /\ doc.log # <<>>)
          => /\ doc.outcome = "completed"
             /\ \A item \in PageItems(Len(doc.manifest.pages)) :
                   Attempt("add", item) \in Attempts(doc.log)

\* C26: deleteOfflineBook(bookId) removes the store named CACHE_PREFIX + bookId
\* and nothing else: every other store (other catalogs, runtime, assets) keeps its
\* entries, and of the progress state only isOfflineReady is set, to false.
C26_DeleteIsScoped ==
    [][\A id \in ListedIds :
          (DeleteOfflineBook(id) /\ cachesInWindow)
             => /\ DOMAIN caches' = DOMAIN caches \ {CACHE_PREFIX \o <<id>>}
                /\ \A n \in DOMAIN caches' : caches'[n] = caches[n]
                /\ cacheState' = [cacheState EXCEPT !.isOfflineReady = FALSE]]_vars

\* C26 witness: a catalog was deleted while another catalog's store and the
\* runtime store exist, and they are still there
C26_Witness ==
    /\ doc.op = "delete"
    /\ CatalogStore(doc.manifest.id) \notin DOMAIN caches
    /\ \E id \in ListedIds \ {doc.manifest.id} :
          /\ CatalogStore(id) \in DOMAIN caches
          /\ caches[CatalogStore(id)] # {}
    /\ RUNTIME_CACHE \in DOMAIN caches
    /\ caches[RUNTIME_CACHE] # {}

\* C27: getOfflineBookIds returns exactly the ids whose store CACHE_PREFIX + id
\* exists, each id as it was given (also an id that is itself the prefix text);
\* the runtime store, the asset store and the other stores of the worker add
\* nothing to the list.
C27_ListIsExact ==
    GetOfflineBookIds =
       {<<id>> : id \in {j \in ListedIds : (CACHE_PREFIX \o <<j>>) \in DOMAIN caches}}

\* C27 witness: the store of the catalog whose id is the prefix text exists
\* next to the runtime and the asset store, and the list holds that id
C27_Witness ==
    /\ (CACHE_PREFIX \o CACHE_PREFIX) \in DOMAIN caches
    /\ RUNTIME_CACHE \in DOMAIN caches
    /\ ASSET_CACHE \in DOMAIN caches
    /\ CACHE_PREFIX \in GetOfflineBookIds

\* C28: directly after a download was started, a first one or one begun after an
\* earlier download ended, the progress state shows isCaching = true and
\* cacheProgress = 0.
C28_ResetAtStart ==
    [][/\ \A c \in 1..MaxCalls : \A m \in CallManifests :
            (CacheBook(c, m) /\ controller)
               => (state'.isCaching /\ state'.cacheProgress = 0)
       /\ \A m \in Manifests :
            (DownloadBookForOffline(m) /\ cachesInWindow)
               => (cacheState'.isCaching /\ cacheState'.cacheProgress = 0)]_vars

\* the place of an item in the enumeration of a catalog of n pages: the manifest,
\* then for each page its image and its thumbnail, then the cover
ItemRank(item, n) ==
    IF item = "manifest" THEN 0
    ELSE IF item = "cover" THEN 2 * n + 1
    ELSE CHOOSE r \in 1..(2 * n) :
            item = (IF r % 2 = 1 THEN ImageKey((r + 1) \div 2) ELSE ThumbKey(r \div 2))

\* the page an item belongs to (0 for the manifest, n + 1 for the cover)
ItemPage(item, n) == (ItemRank(item, n) + 1) \div 2

\* the logs of the downloads: those of the worker's runs and that of the
\* documented manager, each with the number of pages of its catalog
DownloadLogs ==
    {[log |-> calls[c].log, n |-> NPages(calls[c])] : c \in 1..MaxCalls}
    \cup {[log |-> doc.log, n |-> Len(doc.manifest.pages)]}

C30_ProgressInRange ==
    /\ state.cacheProgress \in 0..100
    /\ cacheState.cacheProgress \in 0..100
    /\ \A c \in 1..MaxCalls : \A k \in 1..Len(calls[c].inbox) :
          calls[c].inbox[k].type = "CACHE_PROGRESS"
             => /\ calls[c].inbox[k].total > 0
                /\ RoundPercent(calls[c].inbox[k].cached, calls[c].inbox[k].total) \in 0..100
    /\ \A n \in 1..ProgressPages : \A cached \in 1..(2 * n) :
          RoundPercent(cached, 2 * n) \in 1..100

\* C30 witness: a download is under way whose last progress message left a
\* percentage strictly between 0 and 100
C30_Witness ==
    /\ state.isCaching
    /\ state.cacheProgress \notin {0, 100}
    /\ \E c \in 1..MaxCalls : calls[c].promise = "pending" /\ calls[c].cached >= 1

\* C31: when the background write of a read path fails (the store cannot be
\* opened or cache.put rejects), the response already given to the caller stays
\* as it is and the failure is caught, not left as an unhandled rejection.
C31_WriteFailureCaught ==
    [][FetchPut =>
          /\ fetches'.response = fetches.response
          /\ fetches'.put.status = "failed" => fetches'.put.rejection = "caught"]_vars

\* ---------------------------------------------------------------------------
\* viewer: loading and navigation
\* ---------------------------------------------------------------------------

\* C32: at most one manifest load is in progress at any time, isLoading is true
\* exactly while a load is in progress (so it is false again after every load
\* ends, by success or by failure), and a loadBook call made while a load is in
\* progress starts no fetch and changes no field of the viewer.
C32_OneLoadAtATime ==
    /\ Len(viewer.loads) <= 1
    /\ viewer.isLoading <=> viewer.loads # <<>>
    /\ viewer.isLoading =>
          \A bookId \in BookIds :
             LoadBookViewer(viewer, bookId) = [viewer EXCEPT !.ignored = TRUE]

\* a loadBook call was made while another load was in progress
C32_Witness == viewer.ignored /\ viewer.isLoading /\ viewer.manifest # <<>>

\* C33: with a loaded manifest of at least one page the index stays within
\* 0..pages.length - 1 after any sequence of nextPage, previousPage, thumbnail
\* clicks and loadBook calls; nextPage on the last page and previousPage on the
\* first page leave the viewer as it is.
C33_IndexInBounds ==
    (viewer.manifest # <<>> /\ Len(viewer.manifest[1].pages) >= 1) =>
        LET last == Len(viewer.manifest[1].pages) - 1
        IN  /\ viewer.currentPageIndex \in 0..last
            /\ viewer.currentPageIndex = last => NextPageViewer(viewer) = viewer
            /\ viewer.currentPageIndex = 0 => PreviousPageViewer(viewer) = viewer

\* the last page of a manifest of several pages is shown while another load is
\* in progress
C33_Witness ==
    /\ viewer.manifest # <<>>
    /\ Len(viewer.manifest[1].pages) >= 2
    /\ viewer.currentPageIndex = Len(viewer.manifest[1].pages) - 1
    /\ viewer.isLoading

\* ---------------------------------------------------------------------------
\* gestures
\* ---------------------------------------------------------------------------

Classes == {<<"onSwipeLeft">>, <<"onSwipeRight">>, <<"onTap">>, <<"onDoubleTap">>}

IsSwipeEnd(e) == e.called \in {<<"onSwipeLeft">>, <<"onSwipeRight">>}

TapHistory(g) == <<g.lastTapTime, g.lastTapX, g.lastTapY>>

\* C34: every touchend calls exactly one of the four callbacks; a swipe leaves
\* the tap history as it was and a double-tap resets it; the first touchend, if
\* no swipe, is a tap; and of a tap followed by two quick touchends at the same
\* spot that are no swipes, the second is a double-tap and the third a tap.
C34_TouchEndClassified ==
    [][TouchEnd =>
          LET n == Len(gesture'.ends)
              e == gesture'.ends[n]
          IN  /\ e.called \in Classes
              /\ IsSwipeEnd(e) => TapHistory(gesture') = TapHistory(gesture)
              /\ e.called = <<"onDoubleTap">> => gesture'.lastTapTime = 0
              /\ (n = 1 /\ ~IsSwipeEnd(e)) => e.called = <<"onTap">>
              /\ ( /\ n >= 3
                   /\ gesture'.ends[n - 2].called = <<"onTap">>
                   /\ gesture'.ends[n - 1].quick /\ ~IsSwipeEnd(gesture'.ends[n - 1])
                   /\ e.quick /\ ~IsSwipeEnd(e) )
                 => /\ gesture'.ends[n - 1].called = <<"onDoubleTap">>
                    /\ e.called = <<"onTap">>]_vars

\* three quick taps at the same spot: tap, double-tap, tap
C34_Witness ==
    /\ Len(gesture.ends) = 3
    /\ gesture.ends[1] = [called |-> <<"onTap">>, quick |-> FALSE]
    /\ gesture.ends[2] = [called |-> <<"onDoubleTap">>, quick |-> TRUE]
    /\ gesture.ends[3] = [called |-> <<"onTap">>, quick |-> TRUE]

\* ---------------------------------------------------------------------------
\* what the worker stores
\* ---------------------------------------------------------------------------

\* the last element of a sequence that is not empty
Last(seq) == seq[Len(seq)]

\* C35: every response held by any cache store has an OK (2xx) status: neither
\* the three strategies of the fetch handler nor the bulk caching loop stores a
\* response that is not OK or a synthetic 503.
C35_OnlyOkStored ==
    \A n \in DOMAIN caches : \A e \in caches[n] : e.status \in 200..299

\* the network has answered a request of the page with a response that is not
\* OK and a run of the bulk loop has lost an item, with entries in both stores
C35_Witness ==
    /\ fetches.net = "notok"
    /\ fetches.pc = "done"
    /\ calls[1].failed # {}
    /\ calls[1].pc = "complete"
    /\ \A n \in {RUNTIME_CACHE, ASSET_CACHE} : n \in DOMAIN caches /\ caches[n] # {}

\* C36: a network fetch that fails or is answered with a response that is not
\* OK changes no cache store and schedules no write, in the fetch handler and in
\* the bulk loop; every write of the fetch handler follows an OK answer.
C36_FailedFetchKeepsEntries ==
    [][/\ (FetchNet /\ fetches'.net \in {"notok", "rejected"}) =>
             /\ caches' = caches
             /\ fetches'.pc # "put"
             /\ fetches'.put = fetches.put
       /\ FetchFallback => caches' = caches
       /\ FetchPut => fetches.net = "ok"
       /\ \A c \in 1..MaxCalls :
             /\ (SwManifest(c) /\ Last(calls'[c].log) = Attempt("fetch", "manifest"))
                   => caches' = caches
             /\ SwFetchPage(c) => caches' = caches
             /\ (SwPutPage(c) /\ calls[c].pageResponse # "ok") => caches' = caches
             /\ (SwPutThumb(c) /\ calls[c].thumbResponse # "ok") => caches' = caches]_vars

\* an entry is held for the manifest, the network no longer answers for it, and
\* the handler has fallen back
C36_Witness ==
    /\ fetches.net = "rejected"
    /\ fetches.strategy = "network-first"
    /\ fetches.pc = "done"
    /\ fetches.response.kind = "cache"
    /\ calls[1].failed # {}

\* C37: after cacheBook has resolved for a catalog whose manifest was fetched
\* and stored by the worker, isBookCached finds the catalog: the key the worker
\* stored the manifest under is the key isBookCached looks up.
C37_CachedAfterCacheBook ==
    \A c \in 1..MaxCalls :
       (calls[c].promise = "resolved" /\ "manifest" \notin calls[c].failed)
          => IsBookCached(calls[c].manifest.id)

\* ---------------------------------------------------------------------------
\* invocations of cacheBook side by side
\* ---------------------------------------------------------------------------

\* a new invocation takes slot c in this step
Invoked(c) == \E m \in Manifests \cup CallManifests \cup {BookManifest("b", 0)} : CacheBook(c, m)

\* C38: the promise of an invocation settles once: settled, it keeps its outcome
\* until the slot is taken by a new invocation; a message is handled only while
\* the promise is pending, so none is handled after the timeout rejected it;
\* and the promise and port of an invocation change only in the handling of a
\* message of its own channel, in its own timeout or when it is invoked.
C38_SettledOnceByOwnChannel ==
    [][\A c \in 1..MaxCalls :
          /\ (calls[c].promise \in {"resolved", "rejected"} /\ ~Invoked(c)) =>
                /\ calls'[c].promise = calls[c].promise
                /\ calls'[c].reason = calls[c].reason
          /\ PortOnMessage(c) =>
                /\ calls[c].promise = "pending"
                /\ Head(calls[c].inbox) \in {calls[c].sent[k] : k \in 1..Len(calls[c].sent)}
                /\ \A d \in 1..MaxCalls \ {c} : calls'[d] = calls[d]
          /\ Timeout(c) => \A d \in 1..MaxCalls \ {c} : calls'[d] = calls[d]
          /\ (calls'[c].promise # calls[c].promise \/ calls'[c].port1 # calls[c].port1)
                => (PortOnMessage(c) \/ Timeout(c) \/ Invoked(c))]_vars

\* one invocation has been rejected by the timeout while its run in the worker
\* goes on and has posted messages, and the other invocation is still pending
C38_Witness ==
    /\ calls[1].reason = "timeout"
    /\ calls[1].pc \notin {"none", "done"}
    /\ Len(calls[1].sent) > 0
    /\ calls[2].promise = "pending"
    /\ calls[2].inbox # <<>>

\* ---------------------------------------------------------------------------
\* isOfflineReady
\* ---------------------------------------------------------------------------

\* C39: isOfflineReady turns true only in the handling of CACHE_COMPLETE with
\* success (cache.ts), at the end of a download that ran through, or in the
\* constructor's check when a catalog store exists (guide); CACHE_PROGRESS, a
\* failed CACHE_COMPLETE and the timeout leave it as it is; clearCache and
\* deleteOfflineBook leave it false.
C39_ReadyOnlyBySuccess ==
    [][/\ (state'.isOfflineReady /\ ~state.isOfflineReady) =>
             \E c \in 1..MaxCalls :
                PortOnMessage(c) /\ Head(calls[c].inbox) = CacheCompleteMsg(TRUE)
       /\ (cacheState'.isOfflineReady /\ ~cacheState.isOfflineReady) =>
             \/ doc.pc # "idle" /\ DocCompleted'
             \/ CheckOfflineStatus /\ HasOfflineCache(CachesKeys(caches))
       /\ \A c \in 1..MaxCalls :
             /\ Timeout(c) => state'.isOfflineReady = state.isOfflineReady
             /\ (PortOnMessage(c) /\ Head(calls[c].inbox) # CacheCompleteMsg(TRUE))
                   => state'.isOfflineReady = state.isOfflineReady
       /\ ClearCacheDelete => ~state'.isOfflineReady
       /\ \A b \in BookIds : DeleteOfflineBook(b) => ~cacheState'.isOfflineReady]_vars

\* a download has completed with success and clearCache has run after it
C39_Witness ==
    /\ calls[1].promise = "resolved"
    /\ Len(calls[1].progress) > 1
    /\ ~state.isOfflineReady
    /\ tasks.clear = "idle"
    /\ RUNTIME_CACHE \notin DOMAIN caches

\* the constructor's check has found the store of an earlier visit
C39_WitnessCheck ==
    /\ cacheState.isOfflineReady
    /\ tasks.check = "done"
    /\ doc = IdleDoc

====
